---- MODULE Spec2Model ----
(***************************************************************************)
(* Sprite grid decomposition and frame sequencing (tools/pipeline).        *)
(*                                                                         *)
(*   Grid Assigner  phase1_extract.py   assign_cells_to_grid,              *)
(*                                      _merge_cells_to_count              *)
(*                  extract_grid_cells.py   compute_cell_rects             *)
(*                  phase1_extract.py   _detect_tile_grid,                 *)
(*                                      _find_bright_bands,                *)
(*                                      _infer_grid_from_cells             *)
(*   Separator      extract_grid_cells.py   _find_line_centers             *)
(*   Detector       extract_orochi.py   _find_line_centers,                *)
(*                                      _select_best_lines                 *)
(*                  process_sprite_grid.py  detect_row_centers,            *)
(*                                      group_centers                      *)
(*   Batch loops    phase1_extract.py   main, process_samurai,             *)
(*                                      process_tiles                      *)
(*                  rembg_transparency.py   main, process_single           *)
(*   Sequencer      frame_order.py      find_farthest_pair,                *)
(*                                      nearest_neighbor_path,             *)
(*                                      two_opt_improve, main,             *)
(*                                      select_ping_pong,                  *)
(*                                      compute_distance_matrix            *)
(*   Cell           phase56_normalize_assemble.py  normalize_frame,        *)
(*   Normalizer                         normalize_tile                     *)
(*                  process_sprite_grid.py  fit_to_frame                   *)
(*   Sheet          frame_order.py      assemble_spritesheet, run_ref_mode *)
(*   Assembler      process_sprite_grid.py  make_sprite_sheet, main        *)
(*                  extract_orochi.py   assemble_sprite_sheet, flip_sheet  *)
(*                                                                         *)
(* Python lists are 0-based; a list is modelled as a TLA+ sequence whose   *)
(* element k+1 is the list's element k.  Frame indices stay 0-based.       *)
(* Distances are the float entries of D; the model draws them from a       *)
(* bounded range of naturals.                                              *)
(***************************************************************************)
EXTENDS Integers, Sequences, FiniteSets, TLC

\* ---------------------------------------------------------------- bounds
MaxN == 4
MaxDist == 1
MaxInner == 3
MaxCells == 3
MaxCol == 1
MaxPerRow == 2
MaxImg == 2
MaxExpected == 3
MaxTiles == 2
MaxUnitCells == 2
MaxFiles == 3
MaxPathLen == 7
MaxCycle == 6
MaxFrames == 3
MaxPix == 1
MaxRunWidth == 2
MaxGap == 11
MaxAxis == 7
MaxSide == 6
MaxSlices == 2

\* ------------------------------------------------------------- variables
VARIABLES
    prog,        \* which tool is running
    pc,          \* position in that tool
    \* frame_order.py
    n,           \* number of frames (len(files))
    D,           \* distance matrix, D[i][j]
    endpoints,   \* args.endpoints: <<>> when absent, else <<a_label, c_label>>
    a, c,        \* endpoints of the path
    remaining,   \* nearest_neighbor_path: remaining
    current,     \* nearest_neighbor_path: current
    path,        \* nearest_neighbor_path: path (the seed path once complete)
    best,        \* two_opt_improve: best
    best_len,    \* two_opt_improve: best_len
    improved,    \* two_opt_improve: improved
    i, j,        \* two_opt_improve: loop indices
    ordered,     \* main: ordered  (order_frames: the returned path)
    exit_code,   \* sys.exit status, 0 while running or after a normal end
    error,       \* the exception that ended the run, "" when none
    \* phase1_extract.py, extract_grid_cells.py
    cells,           \* detected cells (list of CellInfo)
    expected_rows,   \* expected row count
    expected_cols,   \* expected column count
    frames_per_row,  \* assign_cells_to_grid: expected cells of each row
    rows,            \* assign_cells_to_grid: rows
    row_i,           \* assign_cells_to_grid: index i of the row loop
    merge_cur,       \* _merge_cells_to_count: current
    target,          \* _merge_cells_to_count: target
    log,             \* printed messages, as <<kind, row>>
    img_w, img_h,    \* image width and height
    row_seps,        \* compute_cell_rects: row_seps
    col_seps,        \* compute_cell_rects: col_seps
    arr,             \* _detect_tile_grid: arr, as the brightness of each tile
    grid,            \* the returned grid: a list of rows of rectangles
    \* batch loops: phase1_extract.main, rembg_transparency.main
    units,           \* per target (file): the number of cells to process
    present,         \* per target: selected by the filter and found on disk
    void_tiles,      \* process_tiles: the cells whose tile is named "void"
    unit_i,          \* index of the target (file) loop
    cell_i,          \* index of the cell loop inside the target
    visited,         \* targets whose processing has started
    written,         \* output files saved, as <<target, cell>>
    failed_at,       \* <<target, cell>> whose remove() call raised, else <<>>
    \* single calls of a function
    args,            \* the arguments of the call, by parameter name
    result           \* the value returned, <<>> before the return

rectVars == <<img_w, img_h, row_seps, col_seps, arr, grid>>

batchVars == <<units, present, void_tiles, unit_i, cell_i, visited, written,
               failed_at>>

callVars == <<args, result>>

auxVars == <<rectVars, batchVars, callVars>>

gridVars == <<cells, expected_rows, expected_cols, frames_per_row, rows, row_i,
              merge_cur, target, log>>

seqVars == <<n, D, endpoints, a, c, remaining, current, path, best, best_len,
             improved, i, j, ordered>>

vars == <<prog, pc, exit_code, error, seqVars, gridVars, auxVars>>

\* ------------------------------------------------------------- sequences
Last(s) == s[Len(s)]

Range(s) == {s[k] : k \in 1..Len(s)}

Min2(x, y) == IF x <= y THEN x ELSE y

Max2(x, y) == IF x >= y THEN x ELSE y

\* ===================================================== frame_order.py ====
Idx(nn) == 0..(nn - 1)

Pairs(nn) == {p \in Idx(nn) \X Idx(nn) : p[1] < p[2]}

\* compute_distance_matrix fills D[i][j] and D[j][i] with the same value for
\* i < j and leaves the diagonal at zero.
MatrixOf(nn, U) ==
    [x \in Idx(nn) |-> [y \in Idx(nn) |->
        IF x = y THEN 0 ELSE U[<<Min2(x, y), Max2(x, y)>>]]]

Matrices(nn, dmax) == {MatrixOf(nn, U) : U \in [Pairs(nn) -> 0..dmax]}

\* find_farthest_pair: the double loop, i ascending, j from i+1, strict ">".
RECURSIVE FarthestScan(_, _, _, _, _, _)
FarthestScan(Dm, nn, ii, jj, best_d, bestp) ==
    IF ii >= nn THEN bestp
    ELSE IF jj >= nn THEN FarthestScan(Dm, nn, ii + 1, ii + 2, best_d, bestp)
    ELSE IF Dm[ii][jj] > best_d
         THEN FarthestScan(Dm, nn, ii, jj + 1, Dm[ii][jj], <<ii, jj>>)
         ELSE FarthestScan(Dm, nn, ii, jj + 1, best_d, bestp)

\* A scan that forgets to raise best_d after a hit.
RECURSIVE FarthestScanStale(_, _, _, _, _, _)
FarthestScanStale(Dm, nn, ii, jj, best_d, bestp) ==
    IF ii >= nn THEN bestp
    ELSE IF jj >= nn THEN FarthestScanStale(Dm, nn, ii + 1, ii + 2, best_d, bestp)
    ELSE IF Dm[ii][jj] > best_d
         THEN FarthestScanStale(Dm, nn, ii, jj + 1, best_d, <<ii, jj>>)
         ELSE FarthestScanStale(Dm, nn, ii, jj + 1, best_d, bestp)

find_farthest_pair_stale(Dm, nn) == FarthestScanStale(Dm, nn, 0, 1, -1, <<0, 1>>)

find_farthest_pair(Dm, nn) == FarthestScan(Dm, nn, 0, 1, -1, <<0, 1>>)

\* The frame nearest to frame 0 in place of the frame nearest to the tail.
NearestToFirst(Dm, cur, rem) ==
    CHOOSE x \in rem : \A y \in rem :
        \/ Dm[0][x] < Dm[0][y]
        \/ Dm[0][x] = Dm[0][y] /\ x <= y

\* A choice among equally near frames that changes from one run to the next.
NearestByRun(Dm, cur, rem) ==
    LET nearest == {x \in rem : \A y \in rem : Dm[cur][x] <= Dm[cur][y]}
    IN  IF result = <<>> THEN CHOOSE x \in nearest : \A y \in nearest : x <= y
        ELSE CHOOSE x \in nearest : \A y \in nearest : x >= y

\* min(remaining, key=lambda x: D[current][x]): the first minimal element in
\* the set's iteration order, which for a set of small ints is ascending.
Nearest(Dm, cur, rem) ==
    CHOOSE x \in rem : \A y \in rem :
        \/ Dm[cur][x] < Dm[cur][y]
        \/ Dm[cur][x] = Dm[cur][y] /\ x <= y

RECURSIVE PathLenFrom(_, _, _)
PathLenFrom(Dm, p, k) ==
    IF k >= Len(p) THEN 0 ELSE Dm[p[k]][p[k + 1]] + PathLenFrom(Dm, p, k + 1)

path_length(Dm, p) == PathLenFrom(Dm, p, 1)

\* The reversed segment starts one position early.
CandidateFromBefore(p, ii, jj) ==
    [k \in 1..Len(p) |->
        IF k - 1 >= ii - 1 /\ k - 1 <= jj THEN p[(ii - 1 + jj - (k - 1)) + 1]
        ELSE p[k]]

\* candidate = best[:i] + best[i : j + 1][::-1] + best[j + 1 :]
Candidate(p, ii, jj) ==
    [k \in 1..Len(p) |->
        IF k - 1 >= ii /\ k - 1 <= jj THEN p[(ii + jj - (k - 1)) + 1] ELSE p[k]]

\* A candidate is taken only if it is shorter by more than one.
two_opt_accept_by_margin(cand_len, cur_len) == cand_len < cur_len - 1

\* The comparison turned around.
two_opt_accept_longer(cand_len, cur_len) == cand_len > cur_len

\* "!=" in place of "<".
two_opt_accept_differs(cand_len, cur_len) == cand_len # cur_len

\* if cand_len < best_len
two_opt_accept(cand_len, cur_len) == cand_len < cur_len

RectIdle ==
    /\ img_w = 0 /\ img_h = 0 /\ row_seps = <<>> /\ col_seps = <<>>
    /\ arr = <<>> /\ grid = <<>>

BatchIdle ==
    /\ units = <<>> /\ present = <<>> /\ void_tiles = {} /\ unit_i = 0
    /\ cell_i = 0 /\ visited = {} /\ written = {} /\ failed_at = <<>>

CallIdle == args = <<>> /\ result = <<>>

AuxIdle == RectIdle /\ BatchIdle /\ CallIdle

GridIdle ==
    /\ cells = <<>> /\ expected_rows = 0 /\ expected_cols = 0
    /\ frames_per_row = <<>> /\ rows = <<>> /\ row_i = 0 /\ merge_cur = <<>>
    /\ target = 0 /\ log = {}

SeqIdle ==
    /\ n = 0 /\ D = <<>> /\ endpoints = <<>> /\ a = 0 /\ c = 0
    /\ remaining = {} /\ current = 0 /\ path = <<>> /\ best = <<>>
    /\ best_len = 0 /\ improved = FALSE /\ i = 0 /\ j = 0 /\ ordered = <<>>

SeqFresh ==
    /\ a = 0 /\ c = 0
    /\ remaining = {} /\ current = 0 /\ path = <<>> /\ best = <<>>
    /\ best_len = 0 /\ improved = FALSE /\ i = 0 /\ j = 0 /\ ordered = <<>>

\* main, "Step 7": files name distinct stems, so labels[k] is the label of
\* frame k and labels.index is the identity; a label outside 0..n-1 is a
\* label that is not in labels.
LabelChoices(nn) == 0..nn

\* order_frames(D) is called with the distance matrix of n frames.
InitSeq ==
    /\ prog = "frame_order" /\ pc = "order" /\ exit_code = 0 /\ error = ""
    /\ GridIdle /\ AuxIdle
    /\ n \in 1..MaxN
    /\ D \in Matrices(n, MaxDist)
    /\ endpoints = <<>>
    /\ SeqFresh

\* main with --endpoints A C, at "Step 7" after the distance matrix is built.
InitEndpoints ==
    /\ prog = "frame_order" /\ pc = "order" /\ exit_code = 0 /\ error = ""
    /\ GridIdle /\ AuxIdle
    /\ n \in 1..MaxN
    /\ D \in Matrices(n, MaxDist)
    /\ endpoints \in LabelChoices(n) \X LabelChoices(n)
    /\ SeqFresh

\* order_frames: a, c = find_farthest_pair(D)
FindFarthest ==
    /\ prog = "frame_order" /\ pc = "order" /\ endpoints = <<>>
    /\ a' = find_farthest_pair(D, n)[1]
    /\ c' = find_farthest_pair(D, n)[2]
    /\ pc' = "nn_init"
    /\ UNCHANGED <<error, gridVars, auxVars>>
    /\ UNCHANGED <<prog, exit_code, n, D, endpoints, remaining, current, path,
                   best, best_len, improved, i, j, ordered>>

\* if args.endpoints: both labels are in labels
ManualEndpoints ==
    /\ prog = "frame_order" /\ pc = "order" /\ endpoints # <<>>
    /\ endpoints[1] \in Idx(n) /\ endpoints[2] \in Idx(n)
    /\ a' = endpoints[1]
    /\ c' = endpoints[2]
    /\ pc' = "nn_init"
    /\ UNCHANGED <<error, gridVars, auxVars>>
    /\ UNCHANGED <<prog, exit_code, n, D, endpoints, remaining, current, path,
                   best, best_len, improved, i, j, ordered>>

\* if a_label not in labels or c_label not in labels: sys.exit(1)
EndpointsRejected ==
    /\ prog = "frame_order" /\ pc = "order" /\ endpoints # <<>>
    /\ ~(endpoints[1] \in Idx(n) /\ endpoints[2] \in Idx(n))
    /\ pc' = "exit" /\ exit_code' = 1
    /\ UNCHANGED <<prog, error, seqVars, gridVars, auxVars>>

\* nearest_neighbor_path, up to the loop
NNInit ==
    /\ prog = "frame_order" /\ pc = "nn_init"
    /\ remaining' = Idx(n) \ {a, c}
    /\ path' = <<a>>
    /\ current' = a
    /\ pc' = "nn_loop"
    /\ UNCHANGED <<error, gridVars, auxVars>>
    /\ UNCHANGED <<prog, exit_code, n, D, endpoints, a, c, best, best_len,
                   improved, i, j, ordered>>

\* one iteration of "while remaining"
NNStep ==
    /\ prog = "frame_order" /\ pc = "nn_loop" /\ remaining # {}
    /\ LET nearest == Nearest(D, current, remaining) IN
        /\ path' = Append(path, nearest)
        /\ remaining' = remaining \ {nearest}
        /\ current' = nearest
    /\ UNCHANGED <<error, gridVars, auxVars>>
    /\ UNCHANGED <<prog, pc, exit_code, n, D, endpoints, a, c, best, best_len,
                   improved, i, j, ordered>>

\* path.append(end); return path
NNEnd ==
    /\ prog = "frame_order" /\ pc = "nn_loop" /\ remaining = {}
    /\ path' = Append(path, c)
    /\ pc' = "two_opt"
    /\ UNCHANGED <<error, gridVars, auxVars>>
    /\ UNCHANGED <<prog, exit_code, n, D, endpoints, a, c, remaining, current,
                   best, best_len, improved, i, j, ordered>>

\* two_opt_improve up to the first pass of the while loop: improved is set
\* to False on entering the pass, i and j start their ranges.
TwoOptBegin ==
    /\ prog = "frame_order" /\ pc = "two_opt"
    /\ Range(path) \subseteq Idx(n)
    /\ best' = path
    /\ best_len' = path_length(D, path)
    /\ improved' = FALSE
    /\ i' = 1 /\ j' = 2
    /\ pc' = "pass"
    /\ UNCHANGED <<error, gridVars, auxVars>>
    /\ UNCHANGED <<prog, exit_code, n, D, endpoints, a, c, remaining, current,
                   path, ordered>>

\* best_len = path_length(D, best) indexes D with a frame that does not
\* exist: IndexError
TwoOptRaise ==
    /\ prog = "frame_order" /\ pc = "two_opt"
    /\ ~(Range(path) \subseteq Idx(n))
    /\ pc' = "raised" /\ error' = "IndexError"
    /\ UNCHANGED <<prog, exit_code, seqVars, gridVars, auxVars>>

\* one candidate: for i in range(1, len(best) - 2),
\*                for j in range(i + 1, len(best) - 1)
TwoOptStep ==
    /\ prog = "frame_order" /\ pc = "pass"
    /\ i < Len(best) - 2
    /\ LET candidate == Candidate(best, i, j)
           cand_len == path_length(D, candidate)
       IN  IF two_opt_accept(cand_len, best_len)
           THEN best' = candidate /\ best_len' = cand_len /\ improved' = TRUE
           ELSE UNCHANGED <<best, best_len, improved>>
    /\ IF j + 1 < Len(best) - 1
       THEN i' = i /\ j' = j + 1
       ELSE i' = i + 1 /\ j' = i + 2
    /\ UNCHANGED <<error, gridVars, auxVars>>
    /\ UNCHANGED <<prog, pc, exit_code, n, D, endpoints, a, c, remaining,
                   current, path, ordered>>

\* the for loops are exhausted: "while improved" either starts another pass
\* or the function returns best
TwoOptEndPass ==
    /\ prog = "frame_order" /\ pc = "pass"
    /\ ~(i < Len(best) - 2)
    /\ IF improved
       THEN /\ improved' = FALSE /\ i' = 1 /\ j' = 2
            /\ UNCHANGED <<pc, ordered>>
       ELSE /\ ordered' = best /\ pc' = "done"
            /\ UNCHANGED <<improved, i, j>>
    /\ UNCHANGED <<error, gridVars, auxVars>>
    /\ UNCHANGED <<prog, exit_code, n, D, endpoints, a, c, remaining, current,
                   path, best, best_len>>

NextSeq ==
    \/ FindFarthest
    \/ NNInit
    \/ NNStep
    \/ NNEnd
    \/ TwoOptBegin
    \/ TwoOptRaise
    \/ TwoOptStep
    \/ TwoOptEndPass

Spec == InitSeq /\ [][NextSeq]_vars

NextEndpoints ==
    \/ ManualEndpoints
    \/ EndpointsRejected
    \/ NNInit
    \/ NNStep
    \/ NNEnd
    \/ TwoOptBegin
    \/ TwoOptStep
    \/ TwoOptEndPass

SpecEndpoints == InitEndpoints /\ [][NextEndpoints]_vars

\* ------------------------------------------- the five-frame scenario ----
\* order_frames on 5 frames: frames 1..4 are at distances 1 < 2 < 3 < 4 from
\* frame 0 and no pair is farther apart than frames 0 and 4; the distances
\* among frames 1..4 are free below that.
InnerPairs == {p \in Pairs(5) : p[1] >= 1}

ScenarioMatrices(dmax) ==
    {MatrixOf(5, [p \in Pairs(5) |-> IF p[1] = 0 THEN p[2] ELSE U[p]]) :
        U \in [InnerPairs -> 0..Min2(dmax, 4)]}

ScenarioHolds(Dm) ==
    /\ Dm[0][1] < Dm[0][2] /\ Dm[0][2] < Dm[0][3] /\ Dm[0][3] < Dm[0][4]
    /\ \A p \in Pairs(5) : Dm[p[1]][p[2]] <= Dm[0][4]

InitScenario ==
    /\ prog = "frame_order" /\ pc = "order" /\ exit_code = 0 /\ error = ""
    /\ GridIdle /\ AuxIdle
    /\ endpoints = <<>>
    /\ n = 5
    /\ D \in ScenarioMatrices(MaxInner)
    /\ ScenarioHolds(D)
    /\ SeqFresh

NextScenario ==
    \/ FindFarthest
    \/ NNInit
    \/ NNStep
    \/ NNEnd
    \/ TwoOptBegin
    \/ TwoOptStep
    \/ TwoOptEndPass

SpecScenario == InitScenario /\ [][NextScenario]_vars

\* ==================================================== phase1_extract.py ====
ROW_GAP_THRESHOLD == 200

\* CellInfo.  center_x and center_y are floats; cx2 and cy2 hold twice their
\* value so that the centre of a merged cell, (x + x2) / 2, stays an integer.
CellInfo(x, y, w, h, cx2, cy2) ==
    [x |-> x, y |-> y, w |-> w, h |-> h, cx2 |-> cx2, cy2 |-> cy2]

\* detect_grid_cells: bounding boxes on the 8-pixel downsampling lattice.  The
\* model draws square cells of side 80 or 160 in columns 80 apart, in a band
\* at y = 0 or a band at y = 400, with the centroid at the box centre.
BandTops == {0, 400}

CellUniverse ==
    {CellInfo(80 * kx, yy, sd, sd, 2 * 80 * kx + sd, 2 * yy + sd) :
        kx \in 0..MaxCol, yy \in BandTops, sd \in {80, 160}}

CellLists == UNION {[1..m -> CellUniverse] : m \in 0..MaxCells}

\* sorted(seq, key=...) and list.sort(key=...): stable, ascending.
InsertSorted(s, e, f) ==
    LET k == Cardinality({m \in 1..Len(s) : s[m][f] <= e[f]})
    IN  SubSeq(s, 1, k) \o <<e>> \o SubSeq(s, k + 1, Len(s))

RECURSIVE StableSort(_, _)
StableSort(s, f) ==
    IF s = <<>> THEN <<>>
    ELSE InsertSorted(StableSort(SubSeq(s, 1, Len(s) - 1), f), s[Len(s)], f)

\* gap = sorted_by_y[i].center_y - sorted_by_y[i - 1].center_y
\* if gap > ROW_GAP_THRESHOLD
RowGapSplits(prev, next) == next.cy2 - prev.cy2 > 2 * ROW_GAP_THRESHOLD

\* the clustering loop over sorted_by_y, for its first k elements
RECURSIVE ClusterRows(_, _)
ClusterRows(sorted_by_y, k) ==
    IF k = 1 THEN <<<<sorted_by_y[1]>>>>
    ELSE LET prev == ClusterRows(sorted_by_y, k - 1) IN
         IF RowGapSplits(sorted_by_y[k - 1], sorted_by_y[k])
         THEN Append(prev, <<sorted_by_y[k]>>)
         ELSE [prev EXCEPT ![Len(prev)] = Append(@, sorted_by_y[k])]

DetectedRows(cs) == ClusterRows(StableSort(cs, "cy2"), Len(cs))

\* Only too many rows count as a mismatch.
RowCountMismatchOnlyMore(detected, expected) == detected > expected

\* if len(rows) != expected_rows
RowCountMismatch(detected, expected) == detected # expected

\* gap = current[j + 1].x - (current[j].x + current[j].w), j 0-based
Gap(cur, jx) == cur[jx + 2].x - (cur[jx + 1].x + cur[jx + 1].w)

\* "gap <= min_gap": the last j whose gap is the smallest.
MergeIdxLastSmallest(cur) ==
    CHOOSE jx \in 0..(Len(cur) - 2) :
        \A m \in 0..(Len(cur) - 2) :
            /\ Gap(cur, jx) <= Gap(cur, m)
            /\ m > jx => Gap(cur, m) > Gap(cur, jx)

\* the scan for merge_idx: the first j whose gap is the smallest
MergeIdx(cur) ==
    CHOOSE jx \in 0..(Len(cur) - 2) :
        \A m \in 0..(Len(cur) - 2) :
            /\ Gap(cur, jx) <= Gap(cur, m)
            /\ m < jx => Gap(cur, m) > Gap(cur, jx)

\* A merge that keeps the right and bottom edge of the left cell.
MergedCellLeftEdges(ca, cb) ==
    LET merged_x == Min2(ca.x, cb.x)
        merged_y == Min2(ca.y, cb.y)
        merged_x2 == ca.x + ca.w
        merged_y2 == ca.y + ca.h
    IN  CellInfo(merged_x, merged_y, merged_x2 - merged_x, merged_y2 - merged_y,
                 merged_x + merged_x2, merged_y + merged_y2)

\* merged = CellInfo(...) of a, b
MergedCell(ca, cb) ==
    LET merged_x == Min2(ca.x, cb.x)
        merged_y == Min2(ca.y, cb.y)
        merged_x2 == Max2(ca.x + ca.w, cb.x + cb.w)
        merged_y2 == Max2(ca.y + ca.h, cb.y + cb.h)
    IN  CellInfo(merged_x, merged_y, merged_x2 - merged_x, merged_y2 - merged_y,
                 merged_x + merged_x2, merged_y + merged_y2)

\* current[merge_idx : merge_idx + 2] = [merged]
MergeOnce(cur) ==
    LET merge_idx == MergeIdx(cur) IN
    SubSeq(cur, 1, merge_idx)
        \o <<MergedCell(cur[merge_idx + 1], cur[merge_idx + 2])>>
        \o SubSeq(cur, merge_idx + 3, Len(cur))

\* process_samurai calls assign_cells_to_grid(cells, expected_rows,
\* frames_per_row) with expected_rows = len(rows_meta) and one
\* totalFramesVisible >= 1 per row of the meta file; the meta file names as
\* many rows as the sheet has bands, or fewer.
InitAssign ==
    /\ prog = "phase1_extract" /\ pc = "assign" /\ exit_code = 0 /\ error = ""
    /\ SeqIdle /\ AuxIdle
    /\ cells \in CellLists
    /\ expected_rows \in 1..Cardinality(BandTops)
    /\ frames_per_row \in [1..expected_rows -> 1..MaxPerRow]
    /\ expected_cols = 0 /\ rows = <<>> /\ row_i = 0 /\ merge_cur = <<>>
    /\ target = 0 /\ log = {}

\* if not cells: raise ValueError("No cells detected")
AssignNoCells ==
    /\ prog = "phase1_extract" /\ pc = "assign"
    /\ cells = <<>>
    /\ pc' = "raised" /\ error' = "No cells detected"
    /\ UNCHANGED <<prog, exit_code, seqVars, gridVars, auxVars>>

\* the rows are clustered; raise ValueError("Row count mismatch: ...")
AssignRowMismatch ==
    /\ prog = "phase1_extract" /\ pc = "assign"
    /\ cells # <<>>
    /\ RowCountMismatch(Len(DetectedRows(cells)), expected_rows)
    /\ rows' = DetectedRows(cells)
    /\ pc' = "raised" /\ error' = "Row count mismatch"
    /\ UNCHANGED <<prog, exit_code, seqVars, auxVars, cells, expected_rows, expected_cols,
                   frames_per_row, row_i, merge_cur, target, log>>

\* the rows are clustered, their count is as expected, and each row is
\* sorted by center_x
AssignRows ==
    /\ prog = "phase1_extract" /\ pc = "assign"
    /\ cells # <<>>
    /\ ~RowCountMismatch(Len(DetectedRows(cells)), expected_rows)
    /\ rows' = [r \in 1..Len(DetectedRows(cells)) |->
                    StableSort(DetectedRows(cells)[r], "cx2")]
    /\ row_i' = 0
    /\ pc' = "rows"
    /\ UNCHANGED <<prog, exit_code, error, seqVars, auxVars, cells, expected_rows,
                   expected_cols, frames_per_row, merge_cur, target, log>>

\* for i, (row, expected) in enumerate(zip(rows, frames_per_row))
InRowLoop == row_i < Min2(Len(rows), Len(frames_per_row))

\* if len(row) > expected: print "... merging to ..." and call
\* _merge_cells_to_count(row, expected)
RowMergeBegin ==
    /\ prog = "phase1_extract" /\ pc = "rows" /\ InRowLoop
    /\ Len(rows[row_i + 1]) > frames_per_row[row_i + 1]
    /\ log' = log \cup {<<"merging", row_i>>}
    /\ merge_cur' = rows[row_i + 1]
    /\ target' = frames_per_row[row_i + 1]
    /\ pc' = "merge"
    /\ UNCHANGED <<prog, exit_code, error, seqVars, auxVars, cells, expected_rows,
                   expected_cols, frames_per_row, rows, row_i>>

\* elif len(row) < expected: print "WARNING: ..."
RowShortWarn ==
    /\ prog = "phase1_extract" /\ pc = "rows" /\ InRowLoop
    /\ Len(rows[row_i + 1]) < frames_per_row[row_i + 1]
    /\ log' = log \cup {<<"WARNING", row_i>>}
    /\ row_i' = row_i + 1
    /\ UNCHANGED <<prog, pc, exit_code, error, seqVars, auxVars, cells, expected_rows,
                   expected_cols, frames_per_row, rows, merge_cur, target>>

\* the row has the expected number of cells
RowExact ==
    /\ prog = "phase1_extract" /\ pc = "rows" /\ InRowLoop
    /\ Len(rows[row_i + 1]) = frames_per_row[row_i + 1]
    /\ row_i' = row_i + 1
    /\ UNCHANGED <<prog, pc, exit_code, error, seqVars, auxVars, cells, expected_rows,
                   expected_cols, frames_per_row, rows, merge_cur, target, log>>

\* one iteration of "while len(current) > target"
MergeStep ==
    /\ prog = "phase1_extract" /\ pc = "merge"
    /\ Len(merge_cur) > target
    /\ merge_cur' = MergeOnce(merge_cur)
    /\ UNCHANGED <<prog, pc, exit_code, error, seqVars, auxVars, cells, expected_rows,
                   expected_cols, frames_per_row, rows, row_i, target, log>>

\* return current; rows[i] = ...
MergeReturn ==
    /\ prog = "phase1_extract" /\ pc = "merge"
    /\ ~(Len(merge_cur) > target)
    /\ rows' = [rows EXCEPT ![row_i + 1] = merge_cur]
    /\ row_i' = row_i + 1
    /\ pc' = "rows"
    /\ UNCHANGED <<prog, exit_code, error, seqVars, auxVars, cells, expected_rows,
                   expected_cols, frames_per_row, merge_cur, target, log>>

\* return rows
AssignReturn ==
    /\ prog = "phase1_extract" /\ pc = "rows" /\ ~InRowLoop
    /\ pc' = "returned"
    /\ UNCHANGED <<prog, exit_code, error, seqVars, gridVars, auxVars>>

NextAssign ==
    \/ AssignNoCells
    \/ AssignRowMismatch
    \/ AssignRows
    \/ RowMergeBegin
    \/ RowShortWarn
    \/ RowExact
    \/ MergeStep
    \/ MergeReturn
    \/ AssignReturn

SpecAssign == InitAssign /\ [][NextAssign]_vars

\* ================================================ extract_grid_cells.py ====
\* a cell rectangle (x, y, w, h)
Rect(x, y, w, h) == [x |-> x, y |-> y, w |-> w, h |-> h]

RECURSIVE SortedSeq(_)
SortedSeq(S) ==
    IF S = {} THEN <<>>
    ELSE LET m == CHOOSE v \in S : \A u \in S : v <= u
         IN  <<m>> \o SortedSeq(S \ {m})

\* main: the separators that _find_line_centers reports and the edge-margin
\* filter keeps are strictly increasing and strictly inside the image; the
\* model draws them from the multiples of 20, and for the 320 px image from
\* the thirds 106 and 213.
SepPositions(size) ==
    IF size = 320 THEN {106, 213}
    ELSE {20 * k : k \in 1..((size \div 20) - 1)}

SepLists(size) == {SortedSeq(S) : S \in SUBSET SepPositions(size)}

ImageSizes == {40 * k : k \in 1..MaxImg} \cup {320}

\* margin = 3
margin == 3

\* The separators are counted in place of the intervals between the bounds.
GridCountOfSeparators(expected, bounds) == Min2(expected, Len(bounds) - 2)

\* range(min(expected_rows, len(y_bounds) - 1)), and the same for columns
GridCount(expected, bounds) == Min2(expected, Len(bounds) - 1)

\* The margin is taken off one side only.
InsetExtentOneSide(lo, hi) == hi - lo - margin

\* x1 - x0 - 2 * margin, y1 - y0 - 2 * margin
InsetExtent(lo, hi) == hi - lo - 2 * margin

compute_cell_rects(ih, iw, rseps, cseps, erows, ecols) ==
    LET y_bounds == <<0>> \o rseps \o <<ih>>
        x_bounds == <<0>> \o cseps \o <<iw>>
    IN  [r \in 1..GridCount(erows, y_bounds) |->
            [cc \in 1..GridCount(ecols, x_bounds) |->
                LET y0 == y_bounds[r]
                    y1 == y_bounds[r + 1]
                    x0 == x_bounds[cc]
                    x1 == x_bounds[cc + 1]
                IN  Rect(x0 + margin, y0 + margin,
                         InsetExtent(x0, x1), InsetExtent(y0, y1))]]

\* the two WARN lines of compute_cell_rects
CellRectWarnings(rseps, cseps, erows, ecols) ==
    {<<"WARN", "rows">> : k \in {1} \cap {IF Len(rseps) + 1 # erows THEN 1 ELSE 0}}
    \cup
    {<<"WARN", "cols">> : k \in {1} \cap {IF Len(cseps) + 1 # ecols THEN 1 ELSE 0}}

\* main up to the call of compute_cell_rects: image loaded, separators
\* detected and filtered, --rows and --cols parsed.
InitCellRects ==
    /\ prog = "extract_grid_cells" /\ pc = "compute" /\ exit_code = 0
    /\ error = ""
    /\ SeqIdle /\ BatchIdle /\ CallIdle
    /\ img_w \in ImageSizes /\ img_h \in ImageSizes
    /\ row_seps \in SepLists(img_h)
    /\ col_seps \in SepLists(img_w)
    /\ expected_rows \in 1..MaxExpected
    /\ expected_cols \in 1..MaxExpected
    /\ cells = <<>> /\ frames_per_row = <<>> /\ rows = <<>> /\ row_i = 0
    /\ merge_cur = <<>> /\ target = 0 /\ log = {}
    /\ arr = <<>> /\ grid = <<>>

\* grid = compute_cell_rects(img.height, img.width, row_seps, col_seps,
\*                           args.rows, args.cols)
ComputeCellRects ==
    /\ prog = "extract_grid_cells" /\ pc = "compute"
    /\ grid' = compute_cell_rects(img_h, img_w, row_seps, col_seps,
                                  expected_rows, expected_cols)
    /\ log' = log \cup CellRectWarnings(row_seps, col_seps,
                                        expected_rows, expected_cols)
    /\ pc' = "returned"
    /\ UNCHANGED <<prog, exit_code, error, seqVars, batchVars, callVars,
                   cells,
                   expected_rows, expected_cols, frames_per_row, rows, row_i,
                   merge_cur, target, img_w, img_h, row_seps, col_seps, arr>>

NextCellRects == ComputeCellRects

SpecCellRects == InitCellRects /\ [][NextCellRects]_vars

\* ===================================== phase1_extract.py: tile sheets ====
\* process_tiles: arr is the decoded tile sheet.  The model's sheets are
\* tr x tc square tiles of TileSide pixels separated by dark gaps of TileGap
\* pixels; a tile is either lit or dark ("void"), the gaps have brightness 0.
TileSide == 60

TileGap == 20

TileBrightness == {20, 200}

TileSheets(tr, tc) == [1..tr -> [1..tc -> TileBrightness]]

SheetExtent(k) == TileSide * k + TileGap * (k - 1)

\* the tile (1-based) that pixel coordinate p falls in, 0 inside a gap
TileAt(p) ==
    IF p % (TileSide + TileGap) < TileSide
    THEN (p \div (TileSide + TileGap)) + 1 ELSE 0

\* the number of pixel coordinates of tile k inside [lo, hi)
TileOverlap(k, lo, hi) ==
    LET t0 == (k - 1) * (TileSide + TileGap)
    IN  Max2(0, Min2(hi, t0 + TileSide) - Max2(lo, t0))

RECURSIVE SumUpTo(_, _)
SumUpTo(f, k) == IF k = 0 THEN 0 ELSE f[k] + SumUpTo(f, k - 1)

\* np.mean(brightness, axis=1): one mean per pixel row, kept as <<sum, count>>
HProj(sheet, h, w) ==
    [y1 \in 1..h |->
        LET r == TileAt(y1 - 1)
        IN  <<IF r = 0 THEN 0
              ELSE SumUpTo([k \in 1..Len(sheet[r]) |-> TileSide * sheet[r][k]],
                           Len(sheet[r])),
              w>>]

\* np.mean(brightness[ys:ye, :], axis=0): one mean per pixel column
VProj(sheet, w, ys, ye) ==
    [x1 \in 1..w |->
        LET cc == TileAt(x1 - 1)
        IN  <<IF cc = 0 THEN 0
              ELSE SumUpTo([k \in 1..Len(sheet) |->
                               TileOverlap(k, ys, ye) * sheet[k][cc]],
                           Len(sheet)),
              ye - ys>>]

\* _find_bright_bands: a band opens at index k when active[k] holds and
\* active[k-1] does not (or k = 0), and closes at the first index after it
\* that is not active, or at len(active); the loop appends the bands that are
\* at least min_size long, in ascending order.  (active[k] of the code is
\* active[k + 1] here.)
BandStarts(active) ==
    {k \in 0..(Len(active) - 1) : active[k + 1] /\ (k = 0 \/ ~active[k])}

BandEnds(active) ==
    {k \in 1..Len(active) :
        active[k] /\ (k = Len(active) \/ ~active[k + 1])}

_find_bright_bands(projection, threshold, min_size) ==
    LET active == [k \in 1..Len(projection) |->
                      projection[k][1] > threshold * projection[k][2]]
        ends == BandEnds(active)
        EndOf(start) == CHOOSE e \in ends :
                            e > start /\ \A u \in ends : u > start => e <= u
        kept == {start \in BandStarts(active) : EndOf(start) - start >= min_size}
        order == SortedSeq(kept)
    IN  [k \in 1..Len(order) |-> <<order[k], EndOf(order[k])>>]

InsertInt(s, e) ==
    LET k == Cardinality({m \in 1..Len(s) : s[m] <= e})
    IN  SubSeq(s, 1, k) \o <<e>> \o SubSeq(s, k + 1, Len(s))

RECURSIVE SortedInts(_)
SortedInts(s) ==
    IF s = <<>> THEN <<>>
    ELSE InsertInt(SortedInts(SubSeq(s, 1, Len(s) - 1)), Last(s))

\* twice np.median of a non-empty list of ints
Median2(s) ==
    LET t == SortedInts(s)
        m == Len(t) \div 2
    IN  IF Len(t) % 2 = 1 THEN 2 * t[m + 1] ELSE t[m] + t[m + 1]

\* [(i * band, (i + 1) * band) for i in range(count)]
UniformBands(band, count) == [k \in 1..count |-> <<(k - 1) * band, k * band>>]

\* the column-detection loop over the row bands, with its break
RECURSIVE BestCols(_, _, _, _, _, _)
BestCols(sheet, w, row_bands, ecols, k, best_cols) ==
    IF k > Len(row_bands) THEN best_cols
    ELSE LET cols == _find_bright_bands(
                         VProj(sheet, w, row_bands[k][1], row_bands[k][2]),
                         55, 30)
         IN  IF Len(cols) = ecols THEN cols
             ELSE BestCols(sheet, w, row_bands, ecols, k + 1,
                           IF Len(cols) > Len(best_cols) THEN cols
                           ELSE best_cols)

\* (int(first_x + i * (spacing + 20)),
\*  int(first_x + i * (spacing + 20) + spacing)) for i in range(expected_cols)
FillColumns(best_cols, ecols) ==
    LET spacing2 == Median2([k \in 1..Len(best_cols) |->
                                best_cols[k][2] - best_cols[k][1]])
        first_x == best_cols[1][1]
    IN  [k \in 1..ecols |->
            <<(2 * first_x + (k - 1) * (spacing2 + 40)) \div 2,
              (2 * first_x + (k - 1) * (spacing2 + 40) + spacing2) \div 2>>]

TileRowBands(sheet, h, w, erows) ==
    LET detected == _find_bright_bands(HProj(sheet, h, w), 60, 50)
    IN  IF Len(detected) # erows THEN UniformBands(h \div erows, erows)
        ELSE detected

TileColBands(sheet, h, w, erows, ecols) ==
    LET best_cols == BestCols(sheet, w, TileRowBands(sheet, h, w, erows),
                              ecols, 1, <<>>)
    IN  IF Len(best_cols) # ecols
        THEN IF best_cols # <<>> THEN FillColumns(best_cols, ecols)
             ELSE UniformBands(w \div ecols, ecols)
        ELSE best_cols

_detect_tile_grid(sheet, h, w, erows, ecols) ==
    LET row_bands == TileRowBands(sheet, h, w, erows)
        best_cols == TileColBands(sheet, h, w, erows, ecols)
    IN  [r \in 1..Len(row_bands) |->
            [cc \in 1..Len(best_cols) |->
                LET ys == row_bands[r][1]
                    ye == row_bands[r][2]
                    xs == best_cols[cc][1]
                    xe == best_cols[cc][2]
                IN  CellInfo(xs, ys, xe - xs, ye - ys, xs + xe, ys + ye)]]

\* the two messages printed by _detect_tile_grid
TileGridMessages(sheet, h, w, erows, ecols) ==
    LET detected == _find_bright_bands(HProj(sheet, h, w), 60, 50)
        best_cols == BestCols(sheet, w, TileRowBands(sheet, h, w, erows),
                              ecols, 1, <<>>)
    IN  {<<"Tile row detection", Len(detected)>> :
             k \in {m \in {1} : Len(detected) # erows}}
        \cup
        {<<"Tile col detection", Len(best_cols)>> :
             k \in {m \in {1} : Len(best_cols) # ecols}}

\* process_tiles up to the call of _detect_tile_grid: sheet decoded, rows
\* and cols read from the metadata.
InitTiles ==
    /\ prog = "process_tiles" /\ pc = "detect" /\ exit_code = 0
    /\ error = ""
    /\ SeqIdle /\ BatchIdle /\ CallIdle
    /\ \E tr \in 1..MaxTiles, tc \in 1..MaxTiles :
          /\ arr \in TileSheets(tr, tc)
          /\ img_h = SheetExtent(tr)
          /\ img_w = SheetExtent(tc)
    /\ expected_rows \in 1..MaxExpected
    /\ expected_cols \in 1..MaxExpected
    /\ row_seps = <<>> /\ col_seps = <<>>
    /\ cells = <<>> /\ frames_per_row = <<>> /\ rows = <<>> /\ row_i = 0
    /\ merge_cur = <<>> /\ target = 0 /\ log = {}
    /\ grid = <<>>

\* grid = _detect_tile_grid(arr, rows, cols)
DetectTileGrid ==
    /\ prog = "process_tiles" /\ pc = "detect"
    /\ grid' = _detect_tile_grid(arr, img_h, img_w, expected_rows,
                                 expected_cols)
    /\ log' = log \cup TileGridMessages(arr, img_h, img_w, expected_rows,
                                        expected_cols)
    /\ pc' = "returned"
    /\ UNCHANGED <<prog, exit_code, error, seqVars, batchVars, callVars,
                   cells,
                   expected_rows, expected_cols, frames_per_row, rows, row_i,
                   merge_cur, target, img_w, img_h, row_seps, col_seps, arr>>

\* ============================ phase1_extract.py: grid from the cells ====
\* Positions are floats in the code; the model keeps them exact, as a
\* fraction <<numerator, denominator>> with a positive denominator.
Frac(nu, de) == <<nu, de>>

FracSub(p, q) == Frac(p[1] * q[2] - q[1] * p[2], p[2] * q[2])

FracAdd(p, q) == Frac(p[1] * q[2] + q[1] * p[2], p[2] * q[2])

FracTimes(k, p) == Frac(k * p[1], p[2])

FracOver(p, k) == Frac(p[1], p[2] * k)

\* int(p): truncation towards zero
FracInt(p) == IF p[1] >= 0 THEN p[1] \div p[2] ELSE -((-p[1]) \div p[2])

RECURSIVE GCD(_, _)
GCD(x, y) == IF y = 0 THEN x ELSE GCD(y, x % y)

\* the fraction in lowest terms, so that equal floats are equal values
FracNorm(p) ==
    LET g == GCD(IF p[1] < 0 THEN -p[1] ELSE p[1], p[2])
    IN  Frac(p[1] \div g, p[2] \div g)

\* the clusters of _cluster_positions: a new cluster after a gap of more
\* than 100, on the doubled values
RECURSIVE GapClusters(_, _, _)
GapClusters(sorted2, k, clusters) ==
    IF k > Len(sorted2) THEN clusters
    ELSE IF sorted2[k] - sorted2[k - 1] > 2 * 100
         THEN GapClusters(sorted2, k + 1, Append(clusters, <<sorted2[k]>>))
         ELSE GapClusters(sorted2, k + 1,
                  [clusters EXCEPT ![Len(clusters)] = Append(@, sorted2[k])])

\* _cluster_positions on the doubled centre coordinates values2
_cluster_positions(values2, expected) ==
    LET sorted2 == SortedInts(values2)
    IN  IF Len(sorted2) <= expected
        THEN [k \in 1..Len(sorted2) |-> FracNorm(Frac(sorted2[k], 2))]
        ELSE LET clusters == GapClusters(sorted2, 2, <<<<sorted2[1]>>>>)
             IN  [k \in 1..Len(clusters) |->
                     FracNorm(Frac(SumUpTo(clusters[k], Len(clusters[k])),
                                   2 * Len(clusters[k])))]

_fill_positions(existing, tgt, total_size) ==
    LET spacing == IF Len(existing) >= 2
                   THEN FracOver(FracSub(Last(existing), existing[1]),
                                 Len(existing) - 1)
                   ELSE Frac(total_size, tgt)
        first == IF existing # <<>> THEN existing[1] ELSE FracOver(spacing, 2)
    IN  [k \in 1..tgt |-> FracNorm(FracAdd(first, FracTimes(k - 1, spacing)))]

\* a CellInfo whose centre is a float
CellAt(x, y, w, h, center_x, center_y) ==
    [x |-> x, y |-> y, w |-> w, h |-> h,
     center_x |-> center_x, center_y |-> center_y]

_uniform_grid(nrows, ncols, iw, ih) ==
    LET cell_w == iw \div ncols
        cell_h == ih \div nrows
    IN  [r \in 1..nrows |-> [cc \in 1..ncols |->
            LET x == (cc - 1) * cell_w
                y == (r - 1) * cell_h
            IN  CellAt(x, y, cell_w, cell_h,
                       FracNorm(Frac(2 * x + cell_w, 2)),
                       FracNorm(Frac(2 * y + cell_h, 2)))]]

\* row_ys or col_xs: clustered, then filled in when too few
GridPositions(values2, expected, total_size) ==
    LET clustered == _cluster_positions(values2, expected)
    IN  IF Len(clustered) < expected
        THEN _fill_positions(clustered, expected, total_size)
        ELSE clustered

_infer_grid_from_cells(cs, erows, ecols, img_width, img_height) ==
    IF cs = <<>> THEN _uniform_grid(erows, ecols, img_width, img_height)
    ELSE
    LET median_w == Median2([k \in 1..Len(cs) |-> cs[k].w]) \div 2
        median_h == Median2([k \in 1..Len(cs) |-> cs[k].h]) \div 2
        row_ys == GridPositions([k \in 1..Len(cs) |-> cs[k].cy2], erows,
                                img_height)
        col_xs == GridPositions([k \in 1..Len(cs) |-> cs[k].cx2], ecols,
                                img_width)
    IN  [r \in 1..Min2(erows, Len(row_ys)) |->
            [cc \in 1..Min2(ecols, Len(col_xs)) |->
                LET cx == col_xs[cc]
                    ry == row_ys[r]
                    x == Max2(0, FracInt(FracSub(cx, Frac(median_w, 2))))
                    y == Max2(0, FracInt(FracSub(ry, Frac(median_h, 2))))
                IN  CellAt(x, y, median_w, median_h, cx, ry)]]

\* The image that the cells of CellUniverse were detected in: wide and
\* high enough to hold every one of them.
InferImageWidth == 80 * MaxCol + 160

InferImageHeight == 400 + 160

\* A caller of _infer_grid_from_cells with cells detected in the image.
InitInfer ==
    /\ prog = "infer_grid" /\ pc = "infer" /\ exit_code = 0
    /\ error = ""
    /\ SeqIdle /\ BatchIdle /\ CallIdle
    /\ cells \in CellLists
    /\ img_w = InferImageWidth /\ img_h = InferImageHeight
    /\ expected_rows \in 1..MaxExpected
    /\ expected_cols \in 1..MaxExpected
    /\ row_seps = <<>> /\ col_seps = <<>> /\ arr = <<>>
    /\ frames_per_row = <<>> /\ rows = <<>> /\ row_i = 0
    /\ merge_cur = <<>> /\ target = 0 /\ log = {}
    /\ grid = <<>>

InferGridFromCells ==
    /\ prog = "infer_grid" /\ pc = "infer"
    /\ grid' = _infer_grid_from_cells(cells, expected_rows, expected_cols,
                                      img_w, img_h)
    /\ pc' = "returned"
    /\ UNCHANGED <<prog, exit_code, error, seqVars, batchVars, callVars,
                   cells,
                   expected_rows, expected_cols, frames_per_row, rows, row_i,
                   merge_cur, target, log, img_w, img_h, row_seps, col_seps,
                   arr>>

\* --------------------------------------------- every producer of a grid ----
InitRects == InitCellRects \/ InitTiles \/ InitInfer

NextRects ==
    \/ ComputeCellRects
    \/ DetectTileGrid
    \/ InferGridFromCells

SpecRects == InitRects /\ [][NextRects]_vars

\* ================================== phase1_extract.py: the batch loop ====
\* main: targets has five entries, the last one of role "tiles"
NumTargets == 5

TilesTarget == 5

\* the cell loop of process_samurai / process_tiles moves to the next cell,
\* and main's loop to the next target after the last cell
NextCell ==
    IF cell_i < units[unit_i]
    THEN cell_i' = cell_i + 1 /\ UNCHANGED <<unit_i, pc>>
    ELSE cell_i' = 0 /\ unit_i' = unit_i + 1 /\ pc' = "targets"

\* main before the loop over targets.  present[t]: target t passes the name
\* filter and its source and metadata files exist.  units[t]: the number of
\* grid cells (tiles) that target t yields, 0 for a target that is skipped.
InitPhase1Main ==
    /\ prog = "phase1_main" /\ pc = "targets" /\ exit_code = 0 /\ error = ""
    /\ SeqIdle /\ GridIdle /\ RectIdle /\ CallIdle
    /\ present \in [1..NumTargets -> BOOLEAN]
    /\ units \in [1..NumTargets -> 0..MaxUnitCells]
    /\ \A t \in 1..NumTargets : units[t] = 0 <=> ~present[t]
    /\ void_tiles \in SUBSET (1..units[TilesTarget])
    /\ unit_i = 1 /\ cell_i = 0
    /\ visited = {} /\ written = {} /\ failed_at = <<>>

\* the two "SKIP" branches and the filter: continue
MainSkip ==
    /\ prog = "phase1_main" /\ pc = "targets"
    /\ unit_i <= NumTargets /\ ~present[unit_i]
    /\ unit_i' = unit_i + 1
    /\ UNCHANGED <<prog, pc, exit_code, error, seqVars, gridVars, rectVars, callVars,
                   units, present, void_tiles, cell_i, visited, written,
                   failed_at>>

\* process_samurai(...) or process_tiles(...) is called and reaches its loop
\* over the cells of the grid
MainProcess ==
    /\ prog = "phase1_main" /\ pc = "targets"
    /\ unit_i <= NumTargets /\ present[unit_i]
    /\ visited' = visited \cup {unit_i}
    /\ cell_i' = 1 /\ pc' = "cells"
    /\ UNCHANGED <<prog, exit_code, error, seqVars, gridVars, rectVars, callVars,
                   units, present, void_tiles, unit_i, written, failed_at>>

\* process_tiles: a "void" tile is painted black and saved without remove()
VoidTile ==
    /\ prog = "phase1_main" /\ pc = "cells"
    /\ unit_i = TilesTarget /\ cell_i \in void_tiles
    /\ written' = written \cup {<<unit_i, cell_i>>}
    /\ NextCell
    /\ UNCHANGED <<prog, exit_code, error, seqVars, gridVars, rectVars, callVars,
                   units, present, void_tiles, visited, failed_at>>

\* remove(cell_img, session=session) returns; the result is cropped and saved
RemoveReturns ==
    /\ prog = "phase1_main" /\ pc = "cells"
    /\ ~(unit_i = TilesTarget /\ cell_i \in void_tiles)
    /\ written' = written \cup {<<unit_i, cell_i>>}
    /\ NextCell
    /\ UNCHANGED <<prog, exit_code, error, seqVars, gridVars, rectVars, callVars,
                   units, present, void_tiles, visited, failed_at>>

\* remove(cell_img, session=session) raises: neither the cell loop nor main
\* has a handler, the exception ends the program
RemoveRaises ==
    /\ prog = "phase1_main" /\ pc = "cells"
    /\ ~(unit_i = TilesTarget /\ cell_i \in void_tiles)
    /\ failed_at' = <<unit_i, cell_i>>
    /\ pc' = "raised" /\ error' = "remove" /\ exit_code' = 1
    /\ UNCHANGED <<prog, seqVars, gridVars, rectVars, callVars, units, present,
                   void_tiles, unit_i, cell_i, visited, written>>

\* the loop over targets is exhausted
MainEnd ==
    /\ prog = "phase1_main" /\ pc = "targets"
    /\ unit_i > NumTargets
    /\ pc' = "done"
    /\ UNCHANGED <<prog, exit_code, error, seqVars, gridVars, rectVars, callVars,
                   batchVars>>

\* ============================ rembg_transparency.py: directory batch ====
\* main, directory branch: files is not empty; every file is one unit of
\* one image.
InitRembgMain ==
    /\ prog = "rembg_transparency" /\ pc = "files" /\ exit_code = 0
    /\ error = ""
    /\ SeqIdle /\ GridIdle /\ RectIdle /\ CallIdle
    /\ \E nfiles \in 1..MaxFiles :
          /\ units = [f \in 1..nfiles |-> 1]
          /\ present = [f \in 1..nfiles |-> TRUE]
    /\ void_tiles = {}
    /\ unit_i = 1 /\ cell_i = 1
    /\ visited = {} /\ written = {} /\ failed_at = <<>>

\* process_single(f, dst, session): remove() returns and the result is saved
ProcessSingle ==
    /\ prog = "rembg_transparency" /\ pc = "files"
    /\ unit_i <= Len(units)
    /\ visited' = visited \cup {unit_i}
    /\ written' = written \cup {<<unit_i, cell_i>>}
    /\ unit_i' = unit_i + 1
    /\ UNCHANGED <<prog, pc, exit_code, error, seqVars, gridVars, rectVars, callVars,
                   units, present, void_tiles, cell_i, failed_at>>

\* process_single(f, dst, session): remove() raises before anything is
\* saved; the loop has no handler
ProcessSingleRaises ==
    /\ prog = "rembg_transparency" /\ pc = "files"
    /\ unit_i <= Len(units)
    /\ visited' = visited \cup {unit_i}
    /\ failed_at' = <<unit_i, cell_i>>
    /\ pc' = "raised" /\ error' = "remove" /\ exit_code' = 1
    /\ UNCHANGED <<prog, seqVars, gridVars, rectVars, callVars, units, present,
                   void_tiles, unit_i, cell_i, written>>

\* the loop over files is exhausted
FilesEnd ==
    /\ prog = "rembg_transparency" /\ pc = "files"
    /\ unit_i > Len(units)
    /\ pc' = "done"
    /\ UNCHANGED <<prog, exit_code, error, seqVars, gridVars, rectVars, callVars,
                   batchVars>>

InitBatch == InitPhase1Main \/ InitRembgMain

NextBatch ==
    \/ MainSkip
    \/ MainProcess
    \/ VoidTile
    \/ RemoveReturns
    \/ RemoveRaises
    \/ MainEnd
    \/ ProcessSingle
    \/ ProcessSingleRaises
    \/ FilesEnd

SpecBatch == InitBatch /\ [][NextBatch]_vars

\* ================================== frame_order.py: select_ping_pong ====
\* round(x) of a float that is the exact fraction p: to the nearest integer,
\* a tie to the even one
PyRound(p) ==
    LET fl == p[1] \div p[2]
        twice == 2 * (p[1] - fl * p[2])
    IN  IF twice < p[2] THEN fl
        ELSE IF twice > p[2] THEN fl + 1
        ELSE IF fl % 2 = 0 THEN fl ELSE fl + 1

RECURSIVE PathsOver(_)
PathsOver(S) ==
    IF S = {} THEN {<<>>}
    ELSE UNION {{<<x>> \o q : q \in PathsOver(S \ {x})} : x \in S}

\* main: ordered is the frame order, a permutation of range(n)
OrderedPaths(maxlen) == UNION {PathsOver(Idx(nn)) : nn \in 0..maxlen}

\* "n < cycle_length" in place of "n <= cycle_length"
PathFitsStrictly(nn, cycle_length) == nn < cycle_length

\* if n <= cycle_length
PathFits(nn, cycle_length) == nn <= cycle_length

\* the cycle_length == 3 branch
PingPongThree(ord) ==
    LET nn == Len(ord)
        mid == PyRound(Frac(nn - 1, 2))
    IN  <<ord[1], ord[mid + 1], ord[nn]>>

\* b2_pos taken as twice b1_pos
PingPongFourDoubled(ord) ==
    LET nn == Len(ord)
        b1_pos == PyRound(Frac(nn - 1, 3))
        b2_pos == 2 * b1_pos
    IN  <<ord[1], ord[b1_pos + 1], ord[nn], ord[b2_pos + 1]>>

\* the cycle_length == 4 branch
PingPongFour(ord) ==
    LET nn == Len(ord)
        b1_pos == PyRound(Frac(nn - 1, 3))
        b2_pos == PyRound(Frac(2 * (nn - 1), 3))
    IN  <<ord[1], ord[b1_pos + 1], ord[nn], ord[b2_pos + 1]>>

\* the general branch: outbound
Outbound(ord, half) ==
    [k1 \in 1..half |->
        LET pos == IF half > 1
                   THEN PyRound(Frac((k1 - 1) * (Len(ord) - 1), half - 1))
                   ELSE 0
        IN  ord[pos + 1]]

\* the general branch: the inbound candidates, before the "not in outbound"
\* test
InboundPicks(ord, count) ==
    [k1 \in 1..count |->
        LET pos == PyRound(FracSub(Frac(Len(ord) - 1, 1),
                                   Frac((k1 - 1) * (Len(ord) - 1), count)))
        IN  ord[pos + 1]]

\* No "not in outbound" test: every element of s is kept.
WithoutTest(s, S) == s

\* the elements of s that are not in the set S, in order
RECURSIVE Without(_, _)
Without(s, S) ==
    IF s = <<>> THEN <<>>
    ELSE IF s[1] \in S THEN Without(Tail(s), S)
    ELSE <<s[1]>> \o Without(Tail(s), S)

PingPongGeneral(ord, cycle_length) ==
    LET half == cycle_length \div 2
        outbound == Outbound(ord, half)
        inbound == Without(InboundPicks(ord, cycle_length - half),
                           Range(outbound))
    IN  outbound \o inbound

select_ping_pong(ord, cycle_length) ==
    IF PathFits(Len(ord), cycle_length) THEN ord
    ELSE IF cycle_length = 3 THEN PingPongThree(ord)
    ELSE IF cycle_length = 4 THEN PingPongFour(ord)
    ELSE PingPongGeneral(ord, cycle_length)

\* main: cycle = select_ping_pong(ordered, args.cycle_length)
InitPingPong ==
    /\ prog = "select_ping_pong" /\ pc = "call" /\ exit_code = 0
    /\ error = ""
    /\ SeqIdle /\ GridIdle /\ RectIdle /\ BatchIdle
    /\ args \in [ordered : OrderedPaths(MaxPathLen), cycle_length : 0..MaxCycle]
    /\ result = <<>>

SelectPingPong ==
    /\ prog = "select_ping_pong" /\ pc = "call"
    /\ result' = select_ping_pong(args.ordered, args.cycle_length)
    /\ pc' = "returned"
    /\ UNCHANGED <<prog, exit_code, error, seqVars, gridVars, rectVars,
                   batchVars, args>>

NextPingPong == SelectPingPong

SpecPingPong == InitPingPong /\ [][NextPingPong]_vars

\* =========================== frame_order.py: compute_distance_matrix ====
\* an aligned distance-transform image: every frame has the same shape, here
\* two pixels, with values 0..MaxPix
FrameFields == [1..2 -> 0..MaxPix]

FrameLists == UNION {[1..nn -> FrameFields] : nn \in 0..MaxFrames}

AbsDiff(x, y) == IF x >= y THEN x - y ELSE y - x

\* float(np.mean(np.abs(dts[i] - dts[j]))), as an exact fraction
MeanAbsDiff(fa, fb) ==
    FracNorm(Frac(SumUpTo([k \in 1..Len(fa) |-> AbsDiff(fa[k], fb[k])],
                          Len(fa)),
                  Len(fa)))

\* The mirrored entry D[j][i] is left at zero.
RECURSIVE FillUpperOnly(_, _, _, _)
FillUpperOnly(dts, Dm, ii, jj) ==
    IF ii >= Len(dts) THEN Dm
    ELSE IF jj >= Len(dts) THEN FillUpperOnly(dts, Dm, ii + 1, ii + 2)
    ELSE FillUpperOnly(dts,
             [Dm EXCEPT ![ii][jj] = MeanAbsDiff(dts[ii + 1], dts[jj + 1])],
             ii, jj + 1)

\* the double loop: D[i][j] = d; D[j][i] = d for i < j
RECURSIVE FillDistances(_, _, _, _)
FillDistances(dts, Dm, ii, jj) ==
    IF ii >= Len(dts) THEN Dm
    ELSE IF jj >= Len(dts) THEN FillDistances(dts, Dm, ii + 1, ii + 2)
    ELSE LET d == MeanAbsDiff(dts[ii + 1], dts[jj + 1])
         IN  FillDistances(dts,
                 [Dm EXCEPT ![ii][jj] = d, ![jj][ii] = d], ii, jj + 1)

\* D = np.zeros((n, n)), then the double loop
compute_distance_matrix(dts) ==
    FillDistances(dts,
                  [x \in Idx(Len(dts)) |-> [y \in Idx(Len(dts)) |-> Frac(0, 1)]],
                  0, 1)

InitDistance ==
    /\ prog = "compute_distance_matrix" /\ pc = "call" /\ exit_code = 0
    /\ error = ""
    /\ SeqIdle /\ GridIdle /\ RectIdle /\ BatchIdle
    /\ args \in [dts : FrameLists]
    /\ result = <<>>

ComputeDistanceMatrix ==
    /\ prog = "compute_distance_matrix" /\ pc = "call"
    /\ result' = compute_distance_matrix(args.dts)
    /\ pc' = "returned"
    /\ UNCHANGED <<prog, exit_code, error, seqVars, gridVars, rectVars,
                   batchVars, args>>

NextDistance == ComputeDistanceMatrix

SpecDistance == InitDistance /\ [][NextDistance]_vars

\* ================================================ separator detection ====
\* The share of marker-coloured pixels of each row (column), in percent.
\* The model's profiles are up to three bands of full rows, each 1 to
\* MaxRunWidth wide, with 1 to MaxGap empty rows between two bands and at
\* most one empty row before the first and after the last band.
RECURSIVE Repeat(_, _)
Repeat(v, k) == IF k <= 0 THEN <<>> ELSE <<v>> \o Repeat(v, k - 1)

RECURSIVE BandsProfile(_, _)
BandsProfile(widths, gaps) ==
    IF widths = <<>> THEN <<>>
    ELSE Repeat(100, widths[1])
         \o (IF gaps = <<>> THEN <<>>
             ELSE Repeat(0, gaps[1]) \o BandsProfile(Tail(widths), Tail(gaps)))

Profiles ==
    UNION {
        {Repeat(0, lead) \o BandsProfile(widths, gaps) \o Repeat(0, trail) :
            lead \in 0..1, trail \in 0..1,
            widths \in [1..nb -> 1..MaxRunWidth],
            gaps \in [1..(IF nb = 0 THEN 0 ELSE nb - 1) -> 1..MaxGap]} :
        nb \in 0..3}

\* a run's centre keeps the sum of its two ends
RunCentreUnhalved(start, stop) == start + stop

\* (start + i) // 2
RunCentre(start, stop) == (start + stop) \div 2

\* _find_line_centers: the loop over the profile (above[k] of the code is
\* above[k + 1] here)
RECURSIVE RunCentres(_, _, _, _, _)
RunCentres(above, k, in_run, start, centers) ==
    IF k = Len(above)
    THEN IF in_run THEN Append(centers, RunCentre(start, Len(above)))
         ELSE centers
    ELSE IF above[k + 1] /\ ~in_run
         THEN RunCentres(above, k + 1, TRUE, k, centers)
    ELSE IF ~above[k + 1] /\ in_run
         THEN RunCentres(above, k + 1, FALSE, start,
                         Append(centers, RunCentre(start, k)))
    ELSE RunCentres(above, k + 1, in_run, start, centers)

\* "<=" in place of "<"
WithinMergeGapInclusive(ctr, last_merged, merge_gap) ==
    ctr - last_merged <= merge_gap

\* if c - merged[-1] < merge_gap
WithinMergeGap(ctr, last_merged, merge_gap) == ctr - last_merged < merge_gap

\* _find_line_centers of extract_grid_cells.py: the merge loop
RECURSIVE MergeCentres(_, _, _, _)
MergeCentres(centers, k, merged, merge_gap) ==
    IF k > Len(centers) THEN merged
    ELSE IF WithinMergeGap(centers[k], Last(merged), merge_gap)
         THEN MergeCentres(centers, k + 1,
                  [merged EXCEPT ![Len(merged)] = (@ + centers[k]) \div 2],
                  merge_gap)
         ELSE MergeCentres(centers, k + 1, Append(merged, centers[k]),
                           merge_gap)

\* extract_grid_cells.py: _find_line_centers(ratio, threshold, merge_gap=10)
_find_line_centers(ratio, threshold, merge_gap) ==
    LET above == [k \in 1..Len(ratio) |-> ratio[k] > threshold]
        centers == RunCentres(above, 0, FALSE, 0, <<>>)
    IN  IF Len(centers) <= 1 THEN centers
        ELSE MergeCentres(centers, 2, <<centers[1]>>, merge_gap)

\* extract_orochi.py: _find_line_centers(ratio, threshold)
orochi_find_line_centers(ratio, threshold) ==
    LET above == [k \in 1..Len(ratio) |-> ratio[k] > threshold]
    IN  RunCentres(above, 0, FALSE, 0, <<>>)

\* group_centers: the loop over indices[1:]
RECURSIVE GroupScan(_, _, _, _, _, _)
GroupScan(indices, k, start, prev, centers, gap) ==
    IF k > Len(indices) THEN Append(centers, (start + prev) \div 2)
    ELSE IF indices[k] > prev + gap
         THEN GroupScan(indices, k + 1, indices[k], indices[k],
                        Append(centers, (start + prev) \div 2), gap)
         ELSE GroupScan(indices, k + 1, start, indices[k], centers, gap)

group_centers(indices, gap) ==
    IF Len(indices) = 0 THEN <<>>
    ELSE GroupScan(indices, 2, indices[1], indices[1], <<>>, gap)

\* np.where(row_red > w * 0.1)[0], with row_red / w in percent
WhereAbove(ratio, threshold) ==
    SortedSeq({k \in 0..(Len(ratio) - 1) : ratio[k + 1] > threshold})

\* detect_row_centers
detect_row_centers(ratio) == group_centers(WhereAbove(ratio, 10), 10)

DetectorNames == {"extract_grid_cells", "extract_orochi", "process_sprite_grid"}

\* detect_red_separators (both tools) and detect_row_centers, at the call of
\* the line finder
InitDetect ==
    /\ prog \in DetectorNames /\ pc = "find_lines" /\ exit_code = 0
    /\ error = ""
    /\ SeqIdle /\ GridIdle /\ RectIdle /\ BatchIdle
    /\ args \in [ratio : Profiles]
    /\ result = <<>>

\* row_seps = _find_line_centers(h_ratio, min_line_ratio), min_line_ratio 0.3
FindLineCenters ==
    /\ prog = "extract_grid_cells" /\ pc = "find_lines"
    /\ result' = _find_line_centers(args.ratio, 30, 10)
    /\ pc' = "returned"
    /\ UNCHANGED <<prog, exit_code, error, seqVars, gridVars, rectVars,
                   batchVars, args>>

\* all_h = _find_line_centers(h_ratio, threshold=0.3)
OrochiFindLineCenters ==
    /\ prog = "extract_orochi" /\ pc = "find_lines"
    /\ result' = orochi_find_line_centers(args.ratio, 30)
    /\ pc' = "returned"
    /\ UNCHANGED <<prog, exit_code, error, seqVars, gridVars, rectVars,
                   batchVars, args>>

\* return group_centers(row_idx)
DetectRowCenters ==
    /\ prog = "process_sprite_grid" /\ pc = "find_lines"
    /\ result' = detect_row_centers(args.ratio)
    /\ pc' = "returned"
    /\ UNCHANGED <<prog, exit_code, error, seqVars, gridVars, rectVars,
                   batchVars, args>>

NextDetect ==
    \/ FindLineCenters
    \/ OrochiFindLineCenters
    \/ DetectRowCenters

SpecDetect == InitDetect /\ [][NextDetect]_vars

\* ================================ extract_orochi.py: _select_best_lines ====
\* itertools.combinations(s, r): the r-element subsequences of s, in
\* lexicographic order of their positions
RECURSIVE Combinations(_, _)
Combinations(s, r) ==
    IF r = 0 THEN << <<>> >>
    ELSE IF Len(s) < r THEN <<>>
    ELSE LET with_first == Combinations(Tail(s), r - 1)
         IN  [k \in 1..Len(with_first) |-> <<s[1]>> \o with_first[k]]
             \o Combinations(Tail(s), r)

\* The closing point `total` is left out of the points.
IntervalsWithoutEnd(combo, total) ==
    LET points == <<0>> \o combo
    IN  [k \in 1..(Len(points) - 1) |-> points[k + 1] - points[k]]

\* points = [0] + list(combo) + [total]; intervals between neighbours
Intervals(combo, total) ==
    LET points == <<0>> \o combo \o <<total>>
    IN  [k \in 1..(Len(points) - 1) |-> points[k + 1] - points[k]]

\* np.var(intervals) times len(intervals) squared: an integer that orders
\* the combinations as their variances do, every combination having the
\* same number of intervals
VarScore(xs) ==
    Len(xs) * SumUpTo([k \in 1..Len(xs) |-> xs[k] * xs[k]], Len(xs))
        - SumUpTo(xs, Len(xs)) * SumUpTo(xs, Len(xs))

\* the loop over the combinations: best_score starts at infinity, best at
\* candidates[:expected], and only a strictly smaller score replaces them
RECURSIVE BestCombo(_, _, _, _, _)
BestCombo(combos, total, k, best_score, best_lines) ==
    IF k > Len(combos) THEN best_lines
    ELSE LET score == VarScore(Intervals(combos[k], total))
         IN  IF best_score = -1 \/ score < best_score
             THEN BestCombo(combos, total, k + 1, score, combos[k])
             ELSE BestCombo(combos, total, k + 1, best_score, best_lines)

\* best_score = -1 stands for float("inf")
_select_best_lines(candidates, expected, total) ==
    IF Len(candidates) = expected THEN candidates
    ELSE IF Len(candidates) < expected THEN candidates
    ELSE BestCombo(Combinations(candidates, expected), total, 1, -1,
                   SubSeq(candidates, 1, expected))

\* detect_red_lines: the internal lines of an axis of length total are
\* ascending and strictly inside the axis; expected is rows - 1 or cols - 1
InitSelect ==
    /\ prog = "select_best_lines" /\ pc = "call" /\ exit_code = 0
    /\ error = ""
    /\ SeqIdle /\ GridIdle /\ RectIdle /\ BatchIdle
    /\ \E total \in 4..MaxAxis, S \in SUBSET (1..(MaxAxis - 1)),
          expected \in 0..3 :
          /\ S \subseteq 1..(total - 1)
          /\ args = [candidates |-> SortedSeq(S), expected |-> expected,
                     total |-> total]
    /\ result = <<>>

\* h_lines = _select_best_lines(h_internal, expected_h, h)
SelectBestLines ==
    /\ prog = "select_best_lines" /\ pc = "call"
    /\ result' = _select_best_lines(args.candidates, args.expected, args.total)
    /\ pc' = "returned"
    /\ UNCHANGED <<prog, exit_code, error, seqVars, gridVars, rectVars,
                   batchVars, args>>

NextSelect == SelectBestLines

SpecSelect == InitSelect /\ [][NextSelect]_vars

\* ====== phase56_normalize_assemble.py, process_sprite_grid.py: normalizers ====
CANVAS_SIZE == 80

EFFECTIVE_SIZE == 48

EFF_X0 == (CANVAS_SIZE - EFFECTIVE_SIZE) \div 2

EFF_Y0 == 6

EFF_X1 == EFF_X0 + EFFECTIVE_SIZE

EFF_Y1 == EFF_Y0 + EFFECTIVE_SIZE

ANCHOR_X == CANVAS_SIZE \div 2

ANCHOR_Y == EFF_Y1

FRAME_SIZE == 80

\* An RGBA image whose non-transparent pixels are fully opaque, of one colour
\* and fill the rectangle box = <<x0, y0, x1, y1>>; box = <<>> for an image
\* with no opaque pixel.  color "src" is the colour of the source pixels,
\* "black" is (0, 0, 0, 255).
Transparent(w, h) == [w |-> w, h |-> h, box |-> <<>>, color |-> ""]

Solid(w, h, color) == [w |-> w, h |-> h, box |-> <<0, 0, w, h>>, color |-> color]

\* Image.new("RGBA", (size, size), (0, 0, 0, 0))
NewCanvas(size) == Transparent(size, size)

\* alpha.getbbox(), and the whole image when it is None
content_bbox(img) ==
    IF img.box = <<>> THEN <<0, 0, img.w, img.h>> ELSE img.box

\* img.crop(b)
Crop(img, b) ==
    LET w == b[3] - b[1]
        h == b[4] - b[2]
    IN  IF img.box = <<>> THEN Transparent(w, h)
        ELSE LET x0 == Max2(img.box[1], b[1]) - b[1]
                 y0 == Max2(img.box[2], b[2]) - b[2]
                 x1 == Min2(img.box[3], b[3]) - b[1]
                 y1 == Min2(img.box[4], b[4]) - b[2]
             IN  IF x0 >= x1 \/ y0 >= y1 THEN Transparent(w, h)
                 ELSE [w |-> w, h |-> h, box |-> <<x0, y0, x1, y1>>,
                       color |-> img.color]

\* img.resize((nw, nh), Image.LANCZOS): a copy at the same size; an image of
\* one value everywhere keeps that value; otherwise the content spreads over
\* the pixels that its scaled box touches
Resize(img, nw, nh) ==
    IF nw = img.w /\ nh = img.h THEN img
    ELSE IF img.box = <<>> THEN Transparent(nw, nh)
    ELSE IF img.box = <<0, 0, img.w, img.h>> THEN Solid(nw, nh, img.color)
    ELSE [w |-> nw, h |-> nh,
          box |-> <<(img.box[1] * nw) \div img.w,
                    (img.box[2] * nh) \div img.h,
                    (img.box[3] * nw + img.w - 1) \div img.w,
                    (img.box[4] * nh + img.h - 1) \div img.h>>,
          color |-> img.color]

\* canvas.paste(src, (px, py)[, src]) on a canvas that is still transparent:
\* the opaque pixels of src land at the offset, clipped to the canvas; with a
\* mask the transparent pixels of src are skipped, without one they are
\* copied, and the canvas pixel is transparent either way
Paste(canvas, src, px, py) ==
    IF src.box = <<>> THEN canvas
    ELSE LET x0 == Max2(src.box[1] + px, 0)
             y0 == Max2(src.box[2] + py, 0)
             x1 == Min2(src.box[3] + px, canvas.w)
             y1 == Min2(src.box[4] + py, canvas.h)
         IN  IF x0 >= x1 \/ y0 >= y1 THEN canvas
             ELSE [canvas EXCEPT !.box = <<x0, y0, x1, y1>>,
                                 !.color = src.color]

\* new_w = max(1, round(content_w * scale)), likewise new_h
ScaledSide(side, scale) == Max2(1, PyRound(FracTimes(side, scale)))

normalize_frame(img, scale) ==
    LET b == content_bbox(img)
        new_w == ScaledSide(b[3] - b[1], scale)
        new_h == ScaledSide(b[4] - b[2], scale)
        scaled == Resize(Crop(img, b), new_w, new_h)
    IN  Paste(NewCanvas(CANVAS_SIZE), scaled,
              ANCHOR_X - new_w \div 2, ANCHOR_Y - new_h)

\* the average of the opaque edge pixels, black when there is none
_dominant_edge_color(img) ==
    IF img.box = <<>> THEN "black" ELSE img.color

\* bg = Image.new("RGBA", scaled.size, edge colour); bg.paste(scaled, (0, 0),
\* scaled): every pixel opaque, the transparent ones in the edge colour
FillWithEdgeColor(scaled) ==
    Solid(scaled.w, scaled.h,
          IF scaled.box = <<>> THEN _dominant_edge_color(scaled)
          ELSE scaled.color)

\* scale = min(EFFECTIVE_SIZE / content_w, EFFECTIVE_SIZE / content_h)
TileScale(content_w, content_h) ==
    IF EFFECTIVE_SIZE * content_h <= EFFECTIVE_SIZE * content_w
    THEN Frac(EFFECTIVE_SIZE, content_w)
    ELSE Frac(EFFECTIVE_SIZE, content_h)

\* The tile is centred on the whole canvas.
TilePasteOnCanvasCentre(new_w, new_h) ==
    <<(CANVAS_SIZE - new_w) \div 2, (CANVAS_SIZE - new_h) \div 2>>

\* paste_x, paste_y: the tile is centred in the effective area
TilePaste(new_w, new_h) ==
    <<EFF_X0 + (EFFECTIVE_SIZE - new_w) \div 2,
      EFF_Y0 + (EFFECTIVE_SIZE - new_h) \div 2>>

StairsTiles == {"stairs-wood", "stairs-stone"}

\* defined for an image of non-zero width and height
normalize_tile(img, tile_name) ==
    IF tile_name = "void" THEN Solid(CANVAS_SIZE, CANVAS_SIZE, "black")
    ELSE LET b == content_bbox(img)
             content_w == b[3] - b[1]
             content_h == b[4] - b[2]
             scale == TileScale(content_w, content_h)
             new_w == ScaledSide(content_w, scale)
             new_h == ScaledSide(content_h, scale)
             scaled == Resize(Crop(img, b), new_w, new_h)
             flat == IF tile_name \notin StairsTiles
                     THEN FillWithEdgeColor(scaled) ELSE scaled
             at == TilePaste(new_w, new_h)
         IN  Paste(NewCanvas(CANVAS_SIZE), flat, at[1], at[2])

\* scale = min(size / w, size / h)
FitScale(w, h, size) ==
    IF size * h <= size * w THEN Frac(size, w) ELSE Frac(size, h)

\* ((size - nw) // 2, (size - nh) // 2)
FitPaste(nw, nh, size) == <<(size - nw) \div 2, (size - nh) \div 2>>

fit_to_frame(img, size) ==
    IF img.w = 0 \/ img.h = 0 THEN NewCanvas(size)
    ELSE LET scale == FitScale(img.w, img.h, size)
             nw == ScaledSide(img.w, scale)
             nh == ScaledSide(img.h, scale)
             at == FitPaste(nw, nh, size)
         IN  Paste(NewCanvas(size), Resize(img, nw, nh), at[1], at[2])

\* the sides of the cells that are cut out of the sheets
Sides == {16 * k : k \in 1..MaxSide}

\* cells that are transparent everywhere or opaque everywhere
UniformImages(sides) ==
    {Transparent(w, h) : w \in sides, h \in sides}
        \cup {Solid(w, h, "src") : w \in sides \ {0}, h \in sides \ {0}}

\* cells with a margin around the opaque content
MarginImages ==
    {[w |-> w, h |-> h, box |-> <<16, 16, w - 16, h>>, color |-> "src"] :
        w \in {u \in Sides : u >= 48}, h \in {u \in Sides : u >= 32}}

\* canvases as the normalizers produce them: the content across the
\* effective area, at full or reduced height
CanvasImages ==
    {[w |-> CANVAS_SIZE, h |-> CANVAS_SIZE,
      box |-> <<EFF_X0, EFF_Y0 + 8 * k, EFF_X1, EFF_Y1 - 8 * k>>,
      color |-> "src"] : k \in 0..2}

FrameScales == {Frac(1, 2), Frac(1, 1), Frac(2, 1)}

TileNames == {"void", "floor", "stairs-wood"}

InitNormalize ==
    /\ pc = "call" /\ exit_code = 0 /\ error = ""
    /\ SeqIdle /\ GridIdle /\ RectIdle /\ BatchIdle
    /\ \/ /\ prog = "normalize_frame"
          /\ args \in [img : UniformImages(Sides) \cup MarginImages
                                \cup CanvasImages,
                       scale : FrameScales]
       \/ /\ prog = "normalize_tile"
          /\ args \in [img : UniformImages(Sides \cup {0}) \cup MarginImages
                                \cup CanvasImages,
                       tile_name : TileNames]
       \/ /\ prog = "fit_to_frame"
          /\ args \in [img : UniformImages(Sides \cup {0}) \cup CanvasImages]
    /\ result = <<>>

\* the image that the next application takes: the input, then the canvas
\* that the last application returned
NextInput == IF result = <<>> THEN args.img ELSE Last(result)

NormalizeFrame ==
    /\ prog = "normalize_frame" /\ Len(result) < 2
    /\ result' = Append(result, normalize_frame(NextInput, args.scale))
    /\ pc' = "returned"
    /\ UNCHANGED <<prog, exit_code, error, seqVars, gridVars, rectVars,
                   batchVars, args>>

NormalizeTile ==
    /\ prog = "normalize_tile" /\ Len(result) < 2 /\ pc # "raised"
    /\ args.tile_name = "void" \/ (NextInput.w # 0 /\ NextInput.h # 0)
    /\ result' = Append(result, normalize_tile(NextInput, args.tile_name))
    /\ pc' = "returned"
    /\ UNCHANGED <<prog, exit_code, error, seqVars, gridVars, rectVars,
                   batchVars, args>>

\* EFFECTIVE_SIZE / content_w with content_w = 0
NormalizeTileRaises ==
    /\ prog = "normalize_tile" /\ Len(result) < 2 /\ pc # "raised"
    /\ args.tile_name # "void" /\ (NextInput.w = 0 \/ NextInput.h = 0)
    /\ error' = "ZeroDivisionError"
    /\ pc' = "raised"
    /\ UNCHANGED <<prog, exit_code, seqVars, gridVars, rectVars, batchVars,
                   args, result>>

FitToFrame ==
    /\ prog = "fit_to_frame" /\ Len(result) < 2
    /\ result' = Append(result, fit_to_frame(NextInput, FRAME_SIZE))
    /\ pc' = "returned"
    /\ UNCHANGED <<prog, exit_code, error, seqVars, gridVars, rectVars,
                   batchVars, args>>

NextNormalize ==
    \/ NormalizeFrame
    \/ NormalizeTile
    \/ NormalizeTileRaises
    \/ FitToFrame

SpecNormalize == InitNormalize /\ [][NextNormalize]_vars

\* ================================= frame_order.py: two_opt_improve ====
\* the numbers of frames: up to five, where the interior of the path has
\* three segments to reverse
TwoOptSizes == 1..5

\* two_opt_improve(D, path) with the frames numbered along the input path;
\* D ranges over all matrices, so every pair of a matrix and an order of the
\* frames is one of these up to the numbering of the frames
InitTwoOpt ==
    /\ prog = "frame_order" /\ pc = "two_opt" /\ exit_code = 0 /\ error = ""
    /\ GridIdle /\ AuxIdle
    /\ n \in TwoOptSizes
    /\ D \in Matrices(n, MaxDist)
    /\ endpoints = <<>>
    /\ a = 0 /\ c = 0 /\ remaining = {} /\ current = 0
    /\ path = [k \in 1..n |-> k - 1]
    /\ best = <<>> /\ best_len = 0 /\ improved = FALSE /\ i = 0 /\ j = 0
    /\ ordered = <<>>

NextTwoOpt ==
    \/ TwoOptBegin
    \/ TwoOptStep
    \/ TwoOptEndPass

SpecTwoOpt == InitTwoOpt /\ [][NextTwoOpt]_vars

\* the loops of two_opt_improve run on once the function is called
SpecTwoOptFair == SpecTwoOpt /\ WF_vars(NextTwoOpt)

\* ================================== frame_order.py: main run twice ====
\* --cycle-length: 3 and 4 have a branch of their own, 4 is the default
CycleChoices == {3, 4}

\* main from "Step 7" on, for one distance matrix
InitTwoRuns ==
    /\ prog = "frame_order" /\ pc = "order" /\ exit_code = 0 /\ error = ""
    /\ GridIdle /\ RectIdle /\ BatchIdle
    /\ n \in 2..MaxN
    /\ D \in Matrices(n, MaxDist)
    /\ endpoints = <<>>
    /\ SeqFresh
    /\ args \in [cycle_length : CycleChoices]
    /\ result = <<>>

\* main, "Step 8": cycle = select_ping_pong(ordered, args.cycle_length)
SelectCycle ==
    /\ prog = "frame_order" /\ pc = "done" /\ args # <<>>
    /\ result' = Append(result,
                        [ordered |-> ordered,
                         cycle |-> select_ping_pong(ordered, args.cycle_length)])
    /\ pc' = "cycle"
    /\ UNCHANGED <<prog, exit_code, error, seqVars, gridVars, rectVars,
                   batchVars, args>>

\* the program is started again on the same distance matrix
SecondRun ==
    /\ prog = "frame_order" /\ pc = "cycle" /\ Len(result) = 1
    /\ pc' = "order"
    /\ a' = 0 /\ c' = 0 /\ remaining' = {} /\ current' = 0 /\ path' = <<>>
    /\ best' = <<>> /\ best_len' = 0 /\ improved' = FALSE /\ i' = 0 /\ j' = 0
    /\ ordered' = <<>>
    /\ UNCHANGED <<prog, exit_code, error, n, D, endpoints, gridVars,
                   rectVars, batchVars, args, result>>

NextTwoRuns ==
    \/ FindFarthest
    \/ NNInit
    \/ NNStep
    \/ NNEnd
    \/ TwoOptBegin
    \/ TwoOptStep
    \/ TwoOptEndPass
    \/ SelectCycle
    \/ SecondRun

SpecTwoRuns == InitTwoRuns /\ [][NextTwoRuns]_vars

\* ==== frame_order.py, process_sprite_grid.py, extract_orochi.py: sheets ====
\* An RGBA image as its width, its height and the set of its columns that
\* hold opaque pixels; no operation of the assemblers moves a pixel
\* vertically.
ClearImage(w, h) == [w |-> w, h |-> h, cols |-> {}]

\* The slots overlap by one column.
SlotOffsetOverlapping(k, pitch) == k * (pitch - 1)

\* (i * frame_size, 0)
SlotOffset(k, pitch) == k * pitch

\* the columns of src, moved to the offset and clipped to the target
ShiftedCols(dst, src, off) ==
    {x + off : x \in src.cols} \cap (0..(dst.w - 1))

\* sheet.paste(frame, (off, 0)): the target box takes the pixels of frame
PasteOver(dst, src, off) ==
    [dst EXCEPT !.cols = (@ \ (off..(off + src.w - 1)))
                            \cup ShiftedCols(dst, src, off)]

\* sheet.paste(frame, (off, 0), frame) and sheet.alpha_composite(frame,
\* (off, 0)): the opaque pixels of frame are put over the target
PasteMasked(dst, src, off) ==
    [dst EXCEPT !.cols = @ \cup ShiftedCols(dst, src, off)]

\* img.transpose(Image.FLIP_LEFT_RIGHT)
FlipLeftRight(img) == [img EXCEPT !.cols = {img.w - 1 - x : x \in @}]

\* sheet.crop((x0, 0, x1, sheet.height))
CropCols(img, x0, x1) ==
    [w |-> x1 - x0, h |-> img.h,
     cols |-> {x - x0 : x \in img.cols \cap (x0..(x1 - 1))}]

\* for i, img in enumerate(images): sheet.alpha_composite(img, (i * size, 0))
RECURSIVE CompositeFrames(_, _, _, _)
CompositeFrames(sheet, images, k, frame_size) ==
    IF k > Len(images) THEN sheet
    ELSE CompositeFrames(
             PasteMasked(sheet, images[k], SlotOffset(k - 1, frame_size)),
             images, k + 1, frame_size)

\* frame_order.py
assemble_spritesheet(images, frame_size) ==
    CompositeFrames(ClearImage(Len(images) * frame_size, frame_size),
                    images, 1, frame_size)

\* for i, frame in enumerate(frames): sheet.paste(frame, (i * FRAME_SIZE, 0))
RECURSIVE PasteFrames(_, _, _)
PasteFrames(sheet, frames, k) ==
    IF k > Len(frames) THEN sheet
    ELSE PasteFrames(PasteOver(sheet, frames[k], SlotOffset(k - 1, FRAME_SIZE)),
                     frames, k + 1)

\* process_sprite_grid.py
make_sprite_sheet(frames) ==
    PasteFrames(ClearImage(FRAME_SIZE * Len(frames), FRAME_SIZE), frames, 1)

\* extract_orochi.py; called with at least one frame
assemble_sprite_sheet(frames) ==
    LET w == frames[1].w
    IN  CompositeFrames(ClearImage(w * Len(frames), frames[1].h), frames, 1, w)

\* The whole strip is mirrored at once.
flip_sheet_as_strip(sheet) == FlipLeftRight(sheet)

\* for i in range(n_frames): crop frame i, flip it, paste it at its place
RECURSIVE FlipFrames(_, _, _, _)
FlipFrames(flipped, sheet, k, frame_w) ==
    IF k >= sheet.w \div frame_w THEN flipped
    ELSE FlipFrames(
             PasteMasked(flipped,
                         FlipLeftRight(CropCols(sheet, k * frame_w,
                                                (k + 1) * frame_w)),
                         SlotOffset(k, frame_w)),
             sheet, k + 1, frame_w)

flip_sheet(sheet) == FlipFrames(ClearImage(sheet.w, sheet.h), sheet, 0, sheet.h)

\* frames whose opaque columns are a run between two of the cuts that divide
\* the side into MaxSlices parts
SliceCuts(side) == {(k * side) \div MaxSlices : k \in 0..MaxSlices}

SquareFrames(side) ==
    {[w |-> side, h |-> side, cols |-> {x \in 0..(side - 1) : lo <= x /\ x < hi}] :
        lo \in SliceCuts(side), hi \in SliceCuts(side)}

SquareFrameLists(side) ==
    UNION {[1..k -> SquareFrames(side)] : k \in 1..MaxFrames}

\* load_and_normalize: target_size, a multiple of 80 (default 320)
SquareSizes == {FRAME_SIZE, 320}

DirectionLists ==
    {<<"right", "left">>, <<"left", "right">>, <<"right">>, <<"left">>}

InitSheets ==
    /\ pc = "call" /\ exit_code = 0 /\ error = ""
    /\ SeqIdle /\ GridIdle /\ RectIdle /\ BatchIdle
    /\ \/ /\ prog = "run_ref_mode"
          /\ \E size \in SquareSizes :
                args \in [sorted_images : SquareFrameLists(size),
                          square_size : {size}]
       \/ /\ prog = "process_sprite_grid_main"
          /\ args \in [frames : SquareFrameLists(FRAME_SIZE),
                       directions : DirectionLists]
       \/ /\ prog = "extract_orochi_main"
          /\ args \in [frames : SquareFrameLists(FRAME_SIZE)]
    /\ result = <<>>

Sheet(mirrored, sheet) == [mirrored |-> mirrored, sheet |-> sheet]

FlipAll(frames) == [k \in 1..Len(frames) |-> FlipLeftRight(frames[k])]

\* run_ref_mode: spritesheet.png
RefSheet ==
    /\ prog = "run_ref_mode" /\ pc = "call"
    /\ result' = <<Sheet(FALSE, assemble_spritesheet(args.sorted_images,
                                                     args.square_size))>>
    /\ pc' = "assembled"
    /\ UNCHANGED <<prog, exit_code, error, seqVars, gridVars, rectVars,
                   batchVars, args>>

\* run_ref_mode: spritesheet_mirrored.png
RefMirroredSheet ==
    /\ prog = "run_ref_mode" /\ pc = "assembled"
    /\ result' = Append(result,
                        Sheet(TRUE, assemble_spritesheet(
                                        FlipAll(args.sorted_images),
                                        args.square_size)))
    /\ pc' = "done"
    /\ UNCHANGED <<prog, exit_code, error, seqVars, gridVars, rectVars,
                   batchVars, args>>

\* process_sprite_grid.main: one pass of `for direction in directions`
GridDirectionSheet ==
    /\ prog = "process_sprite_grid_main" /\ pc \in {"call", "assembled"}
    /\ Len(result) < Len(args.directions)
    /\ LET flip == args.directions[Len(result) + 1] = "left"
           processed == IF flip THEN FlipAll(args.frames) ELSE args.frames
       IN  result' = Append(result, Sheet(flip, make_sprite_sheet(processed)))
    /\ pc' = IF Len(result) + 1 = Len(args.directions) THEN "done"
             ELSE "assembled"
    /\ UNCHANGED <<prog, exit_code, error, seqVars, gridVars, rectVars,
                   batchVars, args>>

\* extract_orochi.main: sheet = assemble_sprite_sheet(frames)
OrochiSheet ==
    /\ prog = "extract_orochi_main" /\ pc = "call"
    /\ result' = <<Sheet(FALSE, assemble_sprite_sheet(args.frames))>>
    /\ pc' = "assembled"
    /\ UNCHANGED <<prog, exit_code, error, seqVars, gridVars, rectVars,
                   batchVars, args>>

\* extract_orochi.main: flipped = flip_sheet(sheet)
OrochiFlipSheet ==
    /\ prog = "extract_orochi_main" /\ pc = "assembled"
    /\ result' = Append(result, Sheet(TRUE, flip_sheet(result[1].sheet)))
    /\ pc' = "done"
    /\ UNCHANGED <<prog, exit_code, error, seqVars, gridVars, rectVars,
                   batchVars, args>>

NextSheets ==
    \/ RefSheet
    \/ RefMirroredSheet
    \/ GridDirectionSheet
    \/ OrochiSheet
    \/ OrochiFlipSheet

SpecSheets == InitSheets /\ [][NextSheets]_vars

\* ====================================== extract_grid_cells.py: main ====
\* the smallest image side whose cell is not used up by the two margins
SmallestSide == 2 * margin + 1

\* the red ratio of the pixel columns: the profiles of the detector that are
\* at least SmallestSide long
ColumnRatios == {p \in Profiles : Len(p) >= SmallestSide}

\* the red ratio of the pixel rows: one line, at the top or MaxGap below it
RowRatios ==
    {Repeat(0, lead) \o Repeat(100, width) \o Repeat(0, MaxGap) :
        lead \in {0, MaxGap}, width \in 1..MaxRunWidth}

\* edge_margin = min(img.width, img.height) * 0.03
\* edge_margin < pos < side - edge_margin
InsideEdgeMargin(pos, side, smaller) ==
    /\ 3 * smaller < 100 * pos
    /\ 100 * pos < 100 * side - 3 * smaller

\* [y for y in seps_raw if edge_margin < y < side - edge_margin]
RECURSIVE EdgeFilter(_, _, _)
EdgeFilter(seps_raw, side, smaller) ==
    IF seps_raw = <<>> THEN <<>>
    ELSE IF InsideEdgeMargin(seps_raw[1], side, smaller)
         THEN <<seps_raw[1]>> \o EdgeFilter(Tail(seps_raw), side, smaller)
         ELSE EdgeFilter(Tail(seps_raw), side, smaller)

\* main after the image is loaded; args.rows, args.cols as expected_rows,
\* expected_cols
InitGridMain ==
    /\ prog = "extract_grid_cells" /\ pc = "detect" /\ exit_code = 0
    /\ error = ""
    /\ SeqIdle /\ BatchIdle
    /\ args \in [h_ratio : RowRatios, v_ratio : ColumnRatios]
    /\ result = <<>>
    /\ img_w = Len(args.v_ratio) /\ img_h = Len(args.h_ratio)
    /\ row_seps = <<>> /\ col_seps = <<>>
    /\ expected_rows = MaxExpected
    /\ expected_cols \in {1, MaxExpected}
    /\ cells = <<>> /\ frames_per_row = <<>> /\ rows = <<>> /\ row_i = 0
    /\ merge_cur = <<>> /\ target = 0 /\ log = {}
    /\ arr = <<>> /\ grid = <<>>

\* row_seps_raw, col_seps_raw = detect_red_separators(arr[:, :, :3])
DetectRedSeparators ==
    /\ prog = "extract_grid_cells" /\ pc = "detect"
    /\ result' = [row_seps_raw |-> _find_line_centers(args.h_ratio, 30, 10),
                  col_seps_raw |-> _find_line_centers(args.v_ratio, 30, 10)]
    /\ pc' = "filter"
    /\ UNCHANGED <<prog, exit_code, error, seqVars, gridVars, rectVars,
                   batchVars, args>>

\* the edge-margin filter on both axes
FilterEdges ==
    /\ prog = "extract_grid_cells" /\ pc = "filter"
    /\ row_seps' = EdgeFilter(result.row_seps_raw, img_h, Min2(img_w, img_h))
    /\ col_seps' = EdgeFilter(result.col_seps_raw, img_w, Min2(img_w, img_h))
    /\ pc' = "compute"
    /\ UNCHANGED <<prog, exit_code, error, seqVars, gridVars, batchVars,
                   callVars, img_w, img_h, arr, grid>>

NextGridMain ==
    \/ DetectRedSeparators
    \/ FilterEdges
    \/ ComputeCellRects

SpecGridMain == InitGridMain /\ [][NextGridMain]_vars

\* ================================================================ claims
IsPermutation(s, nn) ==
    /\ Len(s) = nn
    /\ \A x \in Idx(nn) : Cardinality({k \in 1..Len(s) : s[k] = x}) = 1

\* the sum of the D values of consecutive frames of a path
RECURSIVE TotalLength(_, _)
TotalLength(Dm, p) ==
    IF Len(p) < 2 THEN 0 ELSE Dm[p[1]][p[2]] + TotalLength(Dm, Tail(p))

Returned == prog = "frame_order" /\ pc = "done"

Ended == prog = "frame_order" /\ pc \in {"done", "raised"}

\* C1: for every N >= 1 and every symmetric non-negative D with zero
\* diagonal, order_frames returns a list that contains each index 0..N-1
\* exactly once.
C1_OrderIsPermutation ==
    (Ended /\ endpoints = <<>>) =>
        (pc = "done" /\ IsPermutation(ordered, n))

\* C7: the path two_opt_improve holds, and the one it returns, is never
\* longer in total than the nearest-neighbour seed path it was given.
C7_TwoOptNeverLonger ==
    (prog = "frame_order" /\ pc \in {"pass", "done"}) =>
        TotalLength(D, IF pc = "done" THEN ordered ELSE best)
            <= TotalLength(D, path)

\* 2-opt has returned a path strictly shorter than its seed.
C7_Witness ==
    /\ Returned /\ endpoints = <<>>
    /\ TotalLength(D, ordered) < TotalLength(D, path)

\* C8: for N >= 2 the first and last frames of the returned order are a
\* pair at the maximum distance over all pairs of distinct frames.
C8_EndpointsFarthest ==
    (Returned /\ endpoints = <<>> /\ n >= 2) =>
        \A p \in Pairs(n) : D[ordered[1]][Last(ordered)] >= D[p[1]][p[2]]

\* An order was returned whose endpoints are strictly farther apart than
\* some other pair, and not simply the first and last frame.
C8_Witness ==
    /\ Returned /\ endpoints = <<>> /\ n >= 3
    /\ \E p \in Pairs(n) : D[p[1]][p[2]] < D[ordered[1]][Last(ordered)]
    /\ <<ordered[1], Last(ordered)>> # <<0, n - 1>>

\* C9 as stated: in the five-frame scenario the returned order is
\* [0,1,2,3,4].
C9_ScenarioOrderExact ==
    Returned => ordered = <<0, 1, 2, 3, 4>>

\* the frames lie along a line: the distance between two frames is the
\* difference of their distances from frame 0
Collinear(Dm) ==
    \A p \in Pairs(5) : Dm[p[1]][p[2]] = Dm[0][p[2]] - Dm[0][p[1]]

\* C9 amended: in the five-frame scenario with the frames along a line the
\* returned order is [0,1,2,3,4].
C9_CollinearOrderExact ==
    (Returned /\ Collinear(D)) => ordered = <<0, 1, 2, 3, 4>>

C9_Witness ==
    Returned /\ Collinear(D) /\ ScenarioHolds(D) /\ n = 5

\* C10: with manual endpoints A and C accepted by the tool, the order
\* starts with A, ends with C and holds every index 0..N-1 exactly once.
C10_ManualEndpointsOrder ==
    (Ended /\ endpoints # <<>>) =>
        /\ pc = "done"
        /\ ordered[1] = endpoints[1]
        /\ Last(ordered) = endpoints[2]
        /\ IsPermutation(ordered, n)

\* ------------------------------------------------ Grid Assigner claims ----
AssignReturned == prog = "phase1_extract" /\ pc = "returned"

\* rectangle inner lies inside rectangle outer
RectInside(inner, outer) ==
    /\ outer.x <= inner.x /\ inner.x + inner.w <= outer.x + outer.w
    /\ outer.y <= inner.y /\ inner.y + inner.h <= outer.y + outer.h

\* rectangle box is the bounding box of the non-empty set S of rectangles
IsBoundingBox(box, S) ==
    /\ S # {}
    /\ \A q \in S : RectInside(q, box)
    /\ \E q \in S : q.x = box.x
    /\ \E q \in S : q.y = box.y
    /\ \E q \in S : q.x + q.w = box.x + box.w
    /\ \E q \in S : q.y + q.h = box.y + box.h

\* the cells detected in each row, before any merge
RowsAsDetected == DetectedRows(cells)

\* C2: every row with more detected cells than expected ends with exactly
\* the expected number of cells; every detected cell of the row lies inside
\* one of them, and each of them is the bounding box of the detected cells
\* inside it.
C2_MergeToExpected ==
    AssignReturned =>
        \A r \in 1..Len(rows) :
            Len(RowsAsDetected[r]) > frames_per_row[r] =>
                /\ Len(rows[r]) = frames_per_row[r]
                /\ \A q \in Range(RowsAsDetected[r]) :
                        \E out \in Range(rows[r]) : RectInside(q, out)
                /\ \A out \in Range(rows[r]) :
                        IsBoundingBox(out,
                            {q \in Range(RowsAsDetected[r]) : RectInside(q, out)})

\* A row was merged down by two cells and cells of different size or
\* position went into one rectangle.
C2_Witness ==
    /\ AssignReturned
    /\ \E r \in 1..Len(rows) :
        /\ Len(RowsAsDetected[r]) >= frames_per_row[r] + 2
        /\ \E out \in Range(rows[r]) : out \notin Range(RowsAsDetected[r])

\* the number of row clusters of a non-empty cell list: one more than the
\* number of centre heights that lie more than the threshold above the next
\* lower one
CentreHeights == {cells[k].cy2 : k \in 1..Len(cells)}

RowClusterCount ==
    1 + Cardinality({v \in CentreHeights :
            /\ \E u \in CentreHeights : u < v
            /\ \A u \in CentreHeights : u < v => v - u > 2 * 200})

AssignEnded == prog = "phase1_extract" /\ pc \in {"raised", "returned"}

CellRectsReturned == prog = "extract_grid_cells" /\ pc = "returned"

Lesser(x, y) == IF x < y THEN x ELSE y

GridReturned ==
    /\ prog \in {"extract_grid_cells", "process_tiles", "infer_grid"}
    /\ pc = "returned"

\* C4: every rectangle of a returned grid has x >= 0, y >= 0,
\* x + w <= image width and y + h <= image height, whether it comes from
\* compute_cell_rects, from _infer_grid_from_cells or from _detect_tile_grid.
C4_CellRectsInsideImage ==
    GridReturned =>
        \A r \in 1..Len(grid) : \A k \in 1..Len(grid[r]) :
            /\ grid[r][k].x >= 0
            /\ grid[r][k].y >= 0
            /\ grid[r][k].x + grid[r][k].w <= img_w
            /\ grid[r][k].y + grid[r][k].h <= img_h


\* ------------------------------------------------------- batch loops ----
BatchEnded ==
    /\ prog \in {"phase1_main", "rembg_transparency"}
    /\ pc \in {"done", "raised"}

\* C6: once the batch has come to its end after a background-removal call
\* failed for one cell, no output was written for that cell and every unit
\* that follows the failed one in the batch list has been processed.
C6_BatchContinuesAfterFailure ==
    (BatchEnded /\ failed_at # <<>>) =>
        /\ failed_at \notin written
        /\ \A u \in (failed_at[1] + 1)..Len(units) :
              present[u] => u \in visited


\* -------------------------------------------------- select_ping_pong ----
PingPongReturned == prog = "select_ping_pong" /\ pc = "returned"

\* C11: for a cycle length L >= 1 and a path of N > L frames,
\* select_ping_pong returns exactly L frames.
C11_CycleHasRequestedLength ==
    (PingPongReturned /\ args.cycle_length >= 1
        /\ Len(args.ordered) > args.cycle_length) =>
        Len(result) = args.cycle_length

\* C12: for a path of N frames and a cycle length L with N <= L,
\* select_ping_pong returns the path itself: same elements, same order.
C12_ShortPathUnchanged ==
    (PingPongReturned /\ Len(args.ordered) <= args.cycle_length) =>
        result = args.ordered

\* A path that is not in ascending order, exactly as long as the cycle and
\* long enough for the L = 4 branch, came back.
C12_Witness ==
    /\ PingPongReturned
    /\ Len(args.ordered) = args.cycle_length
    /\ args.cycle_length >= 4
    /\ args.ordered[1] > args.ordered[2]
    /\ result = args.ordered

\* the integer nearest to num / 3 when num is not a multiple-and-a-half
Nearest3(num) == CHOOSE r \in 0..num : 3 * r - num \in -1..1

\* C13: for L = 4 and a duplicate-free path of N > 4 frames the result is
\* [path[0], path[round((N-1)/3)], path[N-1], path[round(2(N-1)/3)]]: four
\* pairwise distinct frames, path[0] and path[-1] among them.
C13_FourFrameCycle ==
    (PingPongReturned /\ args.cycle_length = 4 /\ Len(args.ordered) > 4) =>
        LET path0 == args.ordered
            N == Len(path0)
        IN  /\ result = <<path0[1], path0[Nearest3(N - 1) + 1], path0[N],
                           path0[Nearest3(2 * (N - 1)) + 1]>>
            /\ Cardinality(Range(result)) = 4
            /\ path0[1] \in Range(result)
            /\ path0[N] \in Range(result)

\* The N = 7 case of the four-frame cycle has returned.
C13_Witness ==
    /\ PingPongReturned
    /\ args.cycle_length = 4
    /\ Len(args.ordered) = 7
    /\ Len(result) = 4


\* ------------------------------------------- compute_distance_matrix ----
DistanceReturned == prog = "compute_distance_matrix" /\ pc = "returned"

\* C14: for a list of N frame fields compute_distance_matrix returns an
\* N x N matrix with D[i][i] = 0, D[i][j] = D[j][i] and D[i][j] >= 0.
C14_DistanceMatrixSymmetric ==
    DistanceReturned =>
        LET N == Len(args.dts) IN
        /\ DOMAIN result = 0..(N - 1)
        /\ \A x \in 0..(N - 1) :
              /\ DOMAIN result[x] = 0..(N - 1)
              /\ result[x][x][1] = 0
              /\ \A y \in 0..(N - 1) :
                    /\ result[x][y] = result[y][x]
                    /\ result[x][y][1] >= 0 /\ result[x][y][2] > 0

\* A matrix of three frames, no two of them alike and not all equally far
\* apart, has been returned.
C14_Witness ==
    /\ DistanceReturned
    /\ Len(args.dts) = 3
    /\ result[0][1] # result[0][2]
    /\ result[1][0][1] > 0 /\ result[2][0][1] > 0 /\ result[2][1][1] > 0


\* ---------------------------------------------- separator detection ----
DetectReturned == prog \in DetectorNames /\ pc = "returned"

\* the profile's active positions (0-based), and its bands: the maximal runs
\* of active positions, as <<first, last>>, in ascending order
ActiveAt == {k \in 0..(Len(args.ratio) - 1) : args.ratio[k + 1] = 100}

TrueBands ==
    LET firsts == {k \in ActiveAt : k - 1 \notin ActiveAt}
        LastOf(f) == CHOOSE l \in ActiveAt :
                        /\ l >= f /\ l + 1 \notin ActiveAt
                        /\ \A m \in f..l : m \in ActiveAt
        order == SortedSeq(firsts)
    IN  [k \in 1..Len(order) |-> <<order[k], LastOf(order[k])>>]

\* the number of inactive positions between band k and band k + 1
BandGap(bands, k) == bands[k + 1][1] - bands[k][2] - 1

\* bands of one width, with one gap of more than 10 between neighbours
EvenlySpaced(bands) ==
    /\ Len(bands) >= 1
    /\ \A k \in 1..Len(bands) :
          bands[k][2] - bands[k][1] = bands[1][2] - bands[1][1]
    /\ \A k \in 1..(Len(bands) - 1) :
          BandGap(bands, k) = BandGap(bands, 1) /\ BandGap(bands, k) > 10

\* C15: on a profile of K evenly spaced bands, more than the merge gap of 10
\* apart, each detector returns exactly K positions, in increasing order,
\* position k within 2 px of the centre of band k.
C15_EvenBandsRecovered ==
    (DetectReturned /\ EvenlySpaced(TrueBands)) =>
        /\ Len(result) = Len(TrueBands)
        /\ \A k \in 1..(Len(result) - 1) : result[k] < result[k + 1]
        /\ \A k \in 1..Len(result) :
              2 * result[k] - (TrueBands[k][1] + TrueBands[k][2]) \in -4..4

\* Three evenly spaced bands, two rows wide, went through the detector with
\* the merge step.
C15_Witness ==
    /\ DetectReturned /\ prog = "extract_grid_cells"
    /\ EvenlySpaced(TrueBands)
    /\ Len(TrueBands) = 3
    /\ TrueBands[1][2] > TrueBands[1][1]
    /\ Len(result) = 3

ScanCentre(band) == (band[1] + band[2] + 1) \div 2

Boundary(seps, extent, k) ==
    IF k = 0 THEN 0 ELSE IF k <= Len(seps) THEN seps[k] ELSE extent

\* C17: with expected-1 separators on each axis, cell (r, c) of
\* compute_cell_rects spans boundary r to r+1 vertically and boundary c to
\* c+1 horizontally, the boundaries being 0, the separators and the image
\* extent, inset by 3 px on every side; a 320x320 image with row lines at 106
\* and 213 and no column line gives 3 rows of 1 cell, 100, 101 and 101 high.
C17_CellsSpanBoundaries ==
    (CellRectsReturned /\ Len(row_seps) = expected_rows - 1
        /\ Len(col_seps) = expected_cols - 1) =>
        /\ Len(grid) = expected_rows
        /\ \A r \in 1..expected_rows :
              /\ Len(grid[r]) = expected_cols
              /\ \A k \in 1..expected_cols :
                    LET top == Boundary(row_seps, img_h, r - 1)
                        bottom == Boundary(row_seps, img_h, r)
                        left == Boundary(col_seps, img_w, k - 1)
                        right == Boundary(col_seps, img_w, k)
                    IN  /\ grid[r][k].x = left + 3
                        /\ grid[r][k].y = top + 3
                        /\ grid[r][k].x + grid[r][k].w = right - 3
                        /\ grid[r][k].y + grid[r][k].h = bottom - 3
        /\ (img_w = 320 /\ img_h = 320 /\ row_seps = <<106, 213>>
              /\ col_seps = <<>>) =>
              grid = << <<[x |-> 3, y |-> 3, w |-> 314, h |-> 100]>>,
                        <<[x |-> 3, y |-> 109, w |-> 314, h |-> 101]>>,
                        <<[x |-> 3, y |-> 216, w |-> 314, h |-> 101]>> >>

\* The 320x320 image with row lines at 106 and 213 has been cut into its
\* 3 x 1 grid.
C17_Witness ==
    /\ CellRectsReturned
    /\ img_w = 320 /\ img_h = 320
    /\ row_seps = <<106, 213>> /\ col_seps = <<>>
    /\ expected_rows = 3 /\ expected_cols = 1
    /\ Len(grid) = 3


\* ------------------------------------------------ _select_best_lines ----
SelectReturned == prog = "select_best_lines" /\ pc = "returned"

\* the interval widths between 0, the lines of the set S and the axis length
WidthsOf(S, total) ==
    LET pts == SortedSeq(S \cup {0, total})
    IN  [k \in 1..(Len(pts) - 1) |-> pts[k + 1] - pts[k]]

\* the sum of the squared differences of all pairs of widths: for a fixed
\* number of widths, their variance times the square of that number
Spread(ws) ==
    LET sq == [pr \in (1..Len(ws)) \X (1..Len(ws)) |->
                  IF pr[1] < pr[2]
                  THEN (ws[pr[1]] - ws[pr[2]]) * (ws[pr[1]] - ws[pr[2]])
                  ELSE 0]
        order == SortedSeq({pr[1] * (Len(ws) + 1) + pr[2] : pr \in DOMAIN sq})
    IN  SumUpTo([k \in 1..Len(order) |->
                    sq[<<order[k] \div (Len(ws) + 1),
                         order[k] % (Len(ws) + 1)>>]],
                Len(order))

\* C18: given more candidates than expected, _select_best_lines returns
\* exactly `expected` of the candidates, in increasing order, and no other
\* choice of that many candidates has interval widths of smaller variance.
C18_BestLinesMinimiseVariance ==
    (SelectReturned /\ Len(args.candidates) > args.expected) =>
        /\ Len(result) = args.expected
        /\ Range(result) \subseteq Range(args.candidates)
        /\ \A k \in 1..(Len(result) - 1) : result[k] < result[k + 1]
        /\ \A S \in SUBSET Range(args.candidates) :
              Cardinality(S) = args.expected =>
                  Spread(WidthsOf(Range(result), args.total))
                      <= Spread(WidthsOf(S, args.total))

\* Two lines were chosen out of four candidates, and not the first two.
C18_Witness ==
    /\ SelectReturned
    /\ Len(args.candidates) = 4 /\ args.expected = 2
    /\ Len(result) = 2
    /\ result # SubSeq(args.candidates, 1, 2)


\* -------------------------------------------------------- normalizers ----
Normalizers == {"normalize_frame", "normalize_tile", "fit_to_frame"}

NormalizeReturned == prog \in Normalizers /\ pc = "returned"

FullyTransparent(img) == img.box = <<>>

\* C19: a fully transparent cell of non-zero size comes back from every
\* normalizer (normalize_tile for a tile other than void) as an S x S canvas
\* with no opaque pixel, and no error is raised.
C19_TransparentStaysTransparent ==
    (/\ prog \in Normalizers
     /\ pc # "call"
     /\ FullyTransparent(args.img) /\ args.img.w > 0 /\ args.img.h > 0
     /\ prog = "normalize_tile" => args.tile_name # "void")
        => /\ error = ""
           /\ result # <<>>
           /\ result[1] = Transparent(CANVAS_SIZE, CANVAS_SIZE)

EffectiveArea == <<EFF_X0, EFF_Y0, EFF_X1, EFF_Y1>>

\* the input is an S x S frame that is opaque everywhere
OpaqueFrame(img) == img = Solid(FRAME_SIZE, FRAME_SIZE, img.color)

\* the input is an S x S canvas whose opaque content is the effective area
FilledCanvas(img) ==
    /\ img.w = CANVAS_SIZE /\ img.h = CANVAS_SIZE
    /\ img.box = EffectiveArea

\* C20: fit_to_frame of an S x S opaque frame, and normalize_tile (of a tile
\* that is not void) of an S x S canvas whose content fills the 48 x 48
\* effective area, scale by 1, paste at the offset the content already has
\* and return the input; a second application returns the same canvas again.
C20_RenormalizingChangesNothing ==
    /\ (prog = "fit_to_frame" /\ pc = "returned" /\ OpaqueFrame(args.img)) =>
          /\ FitScale(args.img.w, args.img.h, FRAME_SIZE)
                = Frac(FRAME_SIZE, FRAME_SIZE)
          /\ FitPaste(args.img.w, args.img.h, FRAME_SIZE) = <<0, 0>>
          /\ \A k \in 1..Len(result) : result[k] = args.img
    /\ (/\ prog = "normalize_tile" /\ pc = "returned"
        /\ args.tile_name # "void" /\ FilledCanvas(args.img)) =>
          /\ LET b == content_bbox(args.img)
             IN  /\ TileScale(b[3] - b[1], b[4] - b[2])
                       = Frac(EFFECTIVE_SIZE, EFFECTIVE_SIZE)
                 /\ TilePaste(b[3] - b[1], b[4] - b[2]) = <<b[1], b[2]>>
          /\ \A k \in 1..Len(result) : result[k] = args.img

\* A floor tile canvas with a full effective area was normalized twice.
C20_Witness ==
    /\ prog = "normalize_tile" /\ pc = "returned" /\ Len(result) = 2
    /\ args.tile_name = "floor" /\ FilledCanvas(args.img)


\* ---------------------------------------------------- sheet assemblers ----
SheetProgs == {"run_ref_mode", "process_sprite_grid_main", "extract_orochi_main"}

\* the frames that the pipeline holds before any mirroring
SourceFrames ==
    IF prog = "run_ref_mode" THEN args.sorted_images ELSE args.frames

\* C21: a sheet assembled from n >= 1 frames of S x S pixels is n * S wide
\* and S high, and its columns [i * S, (i + 1) * S) hold frame i of the list,
\* for every i: list order, no gap, no overlap.
C21_FramesLeftToRight ==
    prog \in SheetProgs =>
        \A r \in Range(result) :
            LET frames == IF r.mirrored /\ prog # "extract_orochi_main"
                          THEN FlipAll(SourceFrames) ELSE SourceFrames
                S == frames[1].w
            IN  (~(r.mirrored /\ prog = "extract_orochi_main")) =>
                    /\ r.sheet.w = Len(frames) * S
                    /\ r.sheet.h = S
                    /\ \A k \in 1..Len(frames) :
                          {x \in 0..(S - 1) : (k - 1) * S + x \in r.sheet.cols}
                              = frames[k].cols

\* Three frames, not all alike, are on one sheet.
C21_Witness ==
    /\ prog \in SheetProgs /\ result # <<>>
    /\ Len(SourceFrames) = 3
    /\ SourceFrames[1] # SourceFrames[2]
    /\ SourceFrames[2] # SourceFrames[3]
    /\ result[1].sheet.cols # {}

\* C22: the mirrored sheet has the size of the original, and the pixel at
\* column i * S + x of the mirrored sheet is the pixel at column
\* i * S + (S - 1 - x) of the original, for every slot i.
C22_MirrorKeepsFrameOrder ==
    prog \in SheetProgs =>
        \A r \in Range(result), m \in Range(result) :
            (~r.mirrored /\ m.mirrored) =>
                LET S == r.sheet.h
                IN  /\ m.sheet.w = r.sheet.w /\ m.sheet.h = r.sheet.h
                    /\ \A k \in 0..((r.sheet.w \div S) - 1), x \in 0..(S - 1) :
                          (k * S + x \in m.sheet.cols)
                              <=> (k * S + (S - 1 - x) \in r.sheet.cols)

\* The extract_orochi sheet and its mirror exist, the sheet has several
\* frames, and the mirror of the whole strip would be a different image.
C22_Witness ==
    /\ prog = "extract_orochi_main" /\ Len(result) = 2
    /\ Len(args.frames) >= 2
    /\ result[2].sheet # FlipLeftRight(result[1].sheet)
    /\ result[2].sheet # result[1].sheet


FarthestPairs == {p \in Pairs(n) : \A q \in Pairs(n) : D[p[1]][p[2]] >= D[q[1]][q[2]]}

InTwoOpt == prog = "frame_order" /\ pc \in {"two_opt", "pass"}

\* C24: two_opt_improve returns, and every reversal it accepts makes the
\* total path length strictly smaller.
C24_TwoOptTerminates ==
    /\ [][(InTwoOpt /\ pc = "pass" /\ best' # best)
            => TotalLength(D, best') < TotalLength(D, best)]_vars
    /\ InTwoOpt ~> Returned

\* Five frames came back in a path that is shorter than the input path by
\* two or more.
C24_Witness ==
    /\ Returned /\ n = 5
    /\ TotalLength(D, ordered) + 2 <= TotalLength(D, path)

\* p with its positions lo..hi (counted from 0) in reverse order
Reversed(p, lo, hi) ==
    [k \in 1..Len(p) |->
        IF lo + 1 <= k /\ k <= hi + 1 THEN p[lo + hi + 2 - k] ELSE p[k]]

\* C25: in the returned path no reversal of a segment of two or more
\* elements between the first and the last element gives a strictly
\* shorter path.
C25_TwoOptLocalFixedPoint ==
    Returned =>
        \A lo \in 1..(Len(ordered) - 2), hi \in 1..(Len(ordered) - 2) :
            lo < hi =>
                TotalLength(D, Reversed(ordered, lo, hi))
                    >= TotalLength(D, ordered)

\* The returned path is not the input path, and some interior reversal of it
\* gives a path of the same length.
C25_Witness ==
    /\ Returned /\ n >= 4 /\ ordered # path
    /\ \E lo \in 1..(Len(ordered) - 2), hi \in 1..(Len(ordered) - 2) :
          /\ lo < hi
          /\ Reversed(ordered, lo, hi) # ordered
          /\ TotalLength(D, Reversed(ordered, lo, hi)) = TotalLength(D, ordered)

\* the number of times v occurs in p
Occurrences(p, v) == Cardinality({k \in 1..Len(p) : p[k] = v})

\* C28: at every point of two_opt_improve, and at its return, the path has
\* the first and the last element of the input, the same length and the same
\* elements the same number of times.
C28_TwoOptKeepsEndsAndElements ==
    (prog = "frame_order" /\ pc \in {"pass", "done"}) =>
        LET p == IF pc = "done" THEN ordered ELSE best
        IN  /\ Len(p) = Len(path)
            /\ p[1] = path[1]
            /\ Last(p) = Last(path)
            /\ \A v \in Idx(n) : Occurrences(p, v) = Occurrences(path, v)

\* An interior reordering was returned.
C28_Witness ==
    /\ Returned /\ n >= 4
    /\ ordered # path
    /\ \E k \in 2..(Len(path) - 1) : ordered[k] # path[k]


\* ------------------------------------------- nearest_neighbor_path ----
\* nearest_neighbor_path(D, a, c) has returned to order_frames or main
NNReturned == prog = "frame_order" /\ pc = "two_opt"

\* C26: with start # end, the path of nearest_neighbor_path starts with
\* start, ends with end, and each frame in between is a frame other than
\* start, end and the frames before it, and is as near to its predecessor as
\* any such frame.
C26_NearestNeighbourGreedy ==
    (NNReturned /\ a \in Idx(n) /\ c \in Idx(n) /\ a # c) =>
        /\ Len(path) = n
        /\ path[1] = a
        /\ path[n] = c
        /\ \A k \in 2..(n - 1) :
              LET free == Idx(n) \ ({a, c} \cup {path[m] : m \in 1..(k - 1)})
              IN  /\ path[k] \in free
                  /\ \A x \in free : D[path[k - 1]][path[k]] <= D[path[k - 1]][x]

\* A path over four frames was built from a start that is not frame 0, and
\* a frame was put second although the other free frame is nearer to the
\* start than to it.
C26_Witness ==
    /\ NNReturned /\ n = 4 /\ a # c /\ a # 0
    /\ a \in Idx(n) /\ c \in Idx(n)
    /\ \E x \in Idx(n) \ {a, c, path[2]} : D[a][path[2]] < D[a][x]


\* ------------------------------------------- _merge_cells_to_count ----
\* the horizontal gap between cell k of the row and its right neighbour
GapAfter(row, k) == row[k + 1].x - (row[k].x + row[k].w)

\* C27: every merge step replaces two neighbouring cells of the row by one
\* cell that covers both; no neighbouring pair has a smaller gap, every pair
\* to the left of it has a larger gap, and all other cells stay as they are.
C27_MergeSmallestGapFirst ==
    [][(prog = "phase1_extract" /\ pc = "merge" /\ merge_cur' # merge_cur) =>
          \E k \in 1..(Len(merge_cur) - 1) :
              /\ \A m \in 1..(Len(merge_cur) - 1) :
                    /\ GapAfter(merge_cur, k) <= GapAfter(merge_cur, m)
                    /\ m < k => GapAfter(merge_cur, m) > GapAfter(merge_cur, k)
              /\ Len(merge_cur') = Len(merge_cur) - 1
              /\ \A m \in 1..(k - 1) : merge_cur'[m] = merge_cur[m]
              /\ \A m \in (k + 2)..Len(merge_cur) : merge_cur'[m - 1] = merge_cur[m]
              /\ IsBoundingBox(merge_cur'[k], {merge_cur[k], merge_cur[k + 1]})
      ]_vars

\* One step has merged the second and third cell of a row of three, whose
\* gap was smaller than the gap between the first and the second.
C27_Witness ==
    /\ prog = "phase1_extract" /\ pc = "merge"
    /\ Len(rows[row_i + 1]) = 3 /\ Len(merge_cur) = 2
    /\ merge_cur[1] = rows[row_i + 1][1]
    /\ GapAfter(rows[row_i + 1], 2) < GapAfter(rows[row_i + 1], 1)


\* ------------------------------------- select_ping_pong: no repeats ----
\* C29: for every cycle length from 0 on and every path without repeats,
\* the cycle holds only elements of the path and none of them twice.
C29_CycleHasNoRepeats ==
    (PingPongReturned /\ args.cycle_length >= 0) =>
        /\ Range(result) \subseteq Range(args.ordered)
        /\ \A k1 \in 1..Len(result), k2 \in 1..Len(result) :
              k1 # k2 => result[k1] # result[k2]

\* A cycle of five or more was asked of a longer path, and an inbound sample
\* that was already among the outbound ones was left out.
C29_Witness ==
    /\ PingPongReturned
    /\ args.cycle_length >= 5 /\ Len(args.ordered) > args.cycle_length
    /\ Len(result) < args.cycle_length
    /\ args.ordered[1] # 0


\* ------------------------------------------ extract_grid_cells: main ----
\* C30: every rectangle that main hands to img.crop has a width and a height
\* above zero.
C30_CroppedCellsPositive ==
    (prog = "extract_grid_cells" /\ pc = "returned") =>
        \A r \in 1..Len(grid) : \A k \in 1..Len(grid[r]) :
            grid[r][k].w > 0 /\ grid[r][k].h > 0


====
